---- MODULE Spec2Model ----
(***************************************************************************)
(* Repository Metrics Aggregation Pipeline of TeamVisionK (src/lib/db.ts). *)
(*                                                                         *)
(* Two operations are modelled, each as the sequence of steps between the  *)
(* awaits of its code:                                                     *)
(*   refreshGithubMetrics(teamId, repos?)   specification Spec             *)
(*   scanGithubRepos(teamId)                specification ScanSpec         *)
(* The metrics store (table github_team_metrics), the configuration table, *)
(* the hosting API and the local clone directories are the environment.    *)
(* The environment may fail: the budget MaxFaults bounds how many failures *)
(* one behaviour holds.                                                    *)
(***************************************************************************)
EXTENDS Integers, Sequences, FiniteSets, TLC

\* ------------------------------------------------------------------ bounds
\* Number of refreshGithubMetrics calls in one behaviour.
MaxCalls == 2
\* Number of environment failures (store outage, failed request, failed
\* clone, failed cleanup, a Link header naming a page the listing does not
\* have) in one behaviour.
MaxFaults == 1
\* Length up to which the list allRepos of fetchGithubReposFromApi is counted.
MaxListed == 3

\* ------------------------------------------------------- program constants
ESTIMATED_BYTES_PER_LINE == 50
\* periods of refreshGithubMetrics: the six look-back windows, in code order.
periods ==
  << [key |-> "7days", days |-> 7], [key |-> "30days", days |-> 30],
     [key |-> "60days", days |-> 60], [key |-> "90days", days |-> 90],
     [key |-> "180days", days |-> 180], [key |-> "365days", days |-> 365] >>
OVERALL == "overall_snapshot"
WindowKeys == { periods[i].key : i \in 1..Len(periods) }
PeriodKeys == {OVERALL} \cup WindowKeys

\* ------------------------------------------------------------ value helpers
\* A JS object is a function from its own keys to values; {} is the function
\* with the empty domain.
EmptyObj == << >>
\* { ...a, ...b }: the keys of both, b's value winning.
Spread(a, b) ==
  [k \in (DOMAIN a) \cup (DOMAIN b) |-> IF k \in DOMAIN b THEN b[k] ELSE a[k]]
\* obj[k] || {}
GetOrEmpty(obj, k) == IF k \in DOMAIN obj THEN obj[k] ELSE EmptyObj
\* a value that is `undefined` (a timestamp never set)
Undefined == << >>
\* new Date().toISOString() during call number n
Timestamp(n) == << "ts", n >>

SeqToSet(s) == { s[i] : i \in 1..Len(s) }
RECURSIVE SumSeq(_)
SumSeq(s) == IF s = << >> THEN 0 ELSE Head(s) + SumSeq(Tail(s))
RECURSIVE SumFun(_)
SumFun(f) ==
  IF DOMAIN f = {} THEN 0
  ELSE LET k == CHOOSE x \in DOMAIN f : TRUE
       IN f[k] + SumFun([y \in (DOMAIN f) \ {k} |-> f[y]])

\* ------------------------------------------------------------- the fixture
\* The team identifiers addTeam can create.
Teams == {"A", "B"}

\* GithubRepoData values a caller or a saved selection can hold. R3 has no
\* fullName (the code tests !repo.fullName).
R1 == [id |-> "1", name |-> "r1", fullName |-> "o/r1", url |-> "https://h/o/r1"]
R2 == [id |-> "2", name |-> "r2", fullName |-> "o/r2", url |-> "https://h/o/r2"]
R3 == [id |-> "3", name |-> "r3", fullName |-> "", url |-> "https://h/o/r3"]
\* Repositories with many tags (and no code).
R4 == [id |-> "4", name |-> "r4", fullName |-> "o/r4", url |-> "https://h/o/r4"]
R5 == [id |-> "5", name |-> "r5", fullName |-> "o/r5", url |-> "https://h/o/r5"]
R6 == [id |-> "6", name |-> "r6", fullName |-> "o/r6", url |-> "https://h/o/r6"]

\* The repository lists a call or a selection is given.
RepoLists == { << >>, <<R1, R3, R2>> }
\* The selections saveGithubConfig stores.
Selections == { << >>, <<R2>> }

\* GET /repos/{fullName}/languages: the byte histogram the host reports.
UpstreamLanguages(fullName) ==
  CASE fullName = "o/r1" -> [Go |-> 1000, TS |-> 500]
    [] fullName = "o/r2" -> [Go |-> 500]
    [] OTHER -> EmptyObj

\* GET /repos/{fullName}/tags?per_page=5
UpstreamTags(fullName) ==
  CASE fullName = "o/r1" -> << [name |-> "v2", sha |-> "t2"], [name |-> "v1", sha |-> "t1"] >>
    [] fullName = "o/r2" -> << [name |-> "v1", sha |-> "t3"] >>
    [] fullName = "o/r4" ->
         << [name |-> "v7", sha |-> "u7"], [name |-> "v6", sha |-> "u6"],
            [name |-> "v5", sha |-> "u5"], [name |-> "v4", sha |-> "u4"],
            [name |-> "v3", sha |-> "u3"], [name |-> "v2", sha |-> "u2"],
            [name |-> "v1", sha |-> "u1"] >>
    [] fullName = "o/r5" ->
         << [name |-> "b", sha |-> "w2"], [name |-> "e", sha |-> "w5"],
            [name |-> "a", sha |-> "w1"], [name |-> "d", sha |-> "w4"],
            [name |-> "c", sha |-> "w3"] >>
    [] fullName = "o/r6" ->
         << [name |-> "v4", sha |-> "x4"], [name |-> "v3", sha |-> "x3"],
            [name |-> "v2", sha |-> "x2"], [name |-> "v1", sha |-> "x1"] >>
    [] OTHER -> << >>
\* GET .../tags?per_page=5 (line 901): the host returns the first page.
TagsPerPage == 5
TagsPage(fullName) ==
  SubSeq(UpstreamTags(fullName), 1,
         IF Len(UpstreamTags(fullName)) < TagsPerPage
         THEN Len(UpstreamTags(fullName)) ELSE TagsPerPage)

\* The commits of each repository, newest first. age is the commit's age in
\* days; login/name fields that the API leaves out are "" ; stats is << >> when
\* the listing carries none, else <<additions>>.
UpstreamCommits(fullName) ==
  CASE fullName = "o/r1" ->
         << [sha |-> "c1", authorLogin |-> "alice", committerLogin |-> "web",
             authorName |-> "Alice", committerName |-> "Web", stats |-> <<10>>, age |-> 3],
            [sha |-> "c2", authorLogin |-> "", committerLogin |-> "bob",
             authorName |-> "Bob", committerName |-> "Bob", stats |-> << >>, age |-> 20],
            [sha |-> "c3", authorLogin |-> "", committerLogin |-> "",
             authorName |-> "", committerName |-> "", stats |-> << >>, age |-> 100],
            [sha |-> "c4", authorLogin |-> "", committerLogin |-> "",
             authorName |-> "unknown_committer", committerName |-> "",
             stats |-> <<2>>, age |-> 200] >>
    [] fullName = "o/r2" ->
         << [sha |-> "d1", authorLogin |-> "bob", committerLogin |-> "bob",
             authorName |-> "Bob", committerName |-> "Bob", stats |-> <<4>>, age |-> 5] >>
    [] OTHER -> << >>

\* GET /repos/{fullName}/commits/{sha}: the detail of one commit
\* (stats.additions, and commit.committer.date as a day number).
UpstreamCommitDetail(sha) ==
  CASE sha = "c1" -> [additions |-> 10, date |-> 97]
    [] sha = "c2" -> [additions |-> 5, date |-> 80]
    [] sha = "c3" -> [additions |-> 0, date |-> 0]
    [] sha = "c4" -> [additions |-> 2, date |-> 0]
    [] sha = "d1" -> [additions |-> 4, date |-> 95]
    [] sha = "t1" -> [additions |-> 1, date |-> 30]
    [] sha = "t2" -> [additions |-> 1, date |-> 50]
    [] sha = "t3" -> [additions |-> 1, date |-> 40]
    [] sha = "u7" -> [additions |-> 1, date |-> 99]
    [] sha = "u6" -> [additions |-> 1, date |-> 90]
    [] sha = "u5" -> [additions |-> 1, date |-> 85]
    [] sha = "u4" -> [additions |-> 1, date |-> 70]
    [] sha = "u3" -> [additions |-> 1, date |-> 60]
    [] sha = "u2" -> [additions |-> 1, date |-> 55]
    [] sha = "u1" -> [additions |-> 1, date |-> 10]
    [] sha = "w1" -> [additions |-> 1, date |-> 20]
    [] sha = "w2" -> [additions |-> 1, date |-> 60]
    [] sha = "w3" -> [additions |-> 1, date |-> 65]
    [] sha = "w4" -> [additions |-> 1, date |-> 90]
    [] sha = "w5" -> [additions |-> 1, date |-> 95]
    [] sha = "x4" -> [additions |-> 1, date |-> 98]
    [] sha = "x3" -> [additions |-> 1, date |-> 60]
    [] sha = "x2" -> [additions |-> 1, date |-> 15]
    [] sha = "x1" -> [additions |-> 1, date |-> 5]
    [] OTHER -> [additions |-> 0, date |-> 0]

\* new Date() as a day number during call n (later than every commit).
NowDay(n) == 100 + n

\* ------------------------------------------------------ counting lines
\* File and directory names, and extensions, are sequences of characters.
\* line 597
CODE_EXTENSIONS_FOR_LOC_COUNT ==
  {
    << ".", "p", "y" >>, << ".", "j", "a", "v", "a" >>, << ".", "j", "s" >>,
    << ".", "t", "s" >>, << ".", "c", "p", "p" >>, << ".", "c" >>, << ".", "h" >>,
    << ".", "h", "t", "m", "l" >>, << ".", "c", "s", "s" >>, << ".", "g", "o" >>,
    << ".", "r", "b" >>, << ".", "p", "h", "p" >>, << ".", "t", "s", "x" >>,
    << ".", "j", "s", "x" >>, << ".", "v", "u", "e" >>,
    << ".", "s", "v", "e", "l", "t", "e" >>, << ".", "m", "j", "s" >>,
    << ".", "c", "j", "s" >>, << ".", "c", "s" >>, << ".", "s", "w", "i", "f", "t" >>,
    << ".", "k", "t" >>, << ".", "k", "t", "s" >>, << ".", "r", "s" >>,
    << ".", "s", "c", "a", "l", "a" >>, << ".", "p", "l" >>, << ".", "p", "m" >>,
    << ".", "l", "u", "a" >>, << ".", "d", "a", "r", "t" >>
  }
\* line 598
IGNORED_DIRS_FOR_LOC_COUNT ==
  {
    << ".", "g", "i", "t" >>,
    << "n", "o", "d", "e", "_", "m", "o", "d", "u", "l", "e", "s" >>,
    << "d", "i", "s", "t" >>, << "b", "u", "i", "l", "d" >>,
    << "t", "a", "r", "g", "e", "t" >>, << "o", "u", "t" >>,
    << "v", "e", "n", "d", "o", "r" >>, << "c", "o", "v", "e", "r", "a", "g", "e" >>,
    << ".", "n", "e", "x", "t" >>, << ".", "n", "u", "x", "t" >>,
    << ".", "s", "v", "e", "l", "t", "e", "-", "k", "i", "t" >>, << "v", "e", "n", "v" >>,
    << ".", "v", "e", "n", "v" >>, << "P", "o", "d", "s" >>,
    << "C", "a", "r", "t", "h", "a", "g", "e" >>, << "o", "b", "j" >>, << "b", "i", "n" >>,
    << ".", "s", "e", "t", "t", "i", "n", "g", "s" >>,
    << ".", "v", "s", "c", "o", "d", "e" >>,
    << "_", "_", "p", "y", "c", "a", "c", "h", "e", "_", "_" >>,
    << ".", "D", "S", "_", "S", "t", "o", "r", "e" >>
  }

\* String.prototype.toLowerCase, character by character.
UpperCase == << "A", "B", "C", "D", "E", "F", "G", "H", "I", "J", "K", "L", "M",
               "N", "O", "P", "Q", "R", "S", "T", "U", "V", "W", "X", "Y", "Z" >>
LowerCase == << "a", "b", "c", "d", "e", "f", "g", "h", "i", "j", "k", "l", "m",
               "n", "o", "p", "q", "r", "s", "t", "u", "v", "w", "x", "y", "z" >>
ToLowerChar(c) ==
  IF \E i \in DOMAIN UpperCase : UpperCase[i] = c
  THEN LowerCase[CHOOSE i \in DOMAIN UpperCase : UpperCase[i] = c]
  ELSE c
toLowerCase(name) == [i \in 1..Len(name) |-> ToLowerChar(name[i])]
\* name.startsWith('.')
StartsWithDot(name) == Len(name) > 0 /\ name[1] = "."
\* path.extname: from the last dot to the end; '' when the name has no dot
\* or its only dot is its first character.
extname(name) ==
  LET dots == { i \in 2..Len(name) : name[i] = "." }
  IN IF dots = {} THEN << >>
     ELSE SubSeq(name, CHOOSE i \in dots : \A j \in dots : j <= i, Len(name))

\* A file holds its content as the lines content.split('\n') gives; a line
\* of blanks trims to ''.
Trim(line) == IF line \in {"", " ", "  "} THEN "" ELSE line
File(name, lines) == [kind |-> "file", name |-> name, lines |-> lines]
Dir(name, entries) == [kind |-> "dir", name |-> name, entries |-> entries]
\* An entry that is neither a file nor a directory (a symbolic link).
Link(name) == [kind |-> "link", name |-> name]
CodeLines(n) == [i \in 1..n |-> "x"]

\* lines 782-790: the non-blank lines of the file; 0 when readFile throws.
countLinesInFile(file, filePath, unreadable) ==
  IF filePath \in unreadable THEN 0
  ELSE Len(SelectSeq(file.lines, LAMBDA line : Trim(line) # ""))

\* line 802: the test that makes walk pass over an entry.
WalkSkips(name) ==
  LET entryNameLower == toLowerCase(name)
  IN StartsWithDot(entryNameLower) \/ entryNameLower \in IGNORED_DIRS_FOR_LOC_COUNT

\* lines 796-820: walk(currentPath), entry by entry from position i; loc is
\* { totalLines, linesByLanguage } so far. A directory whose readdir throws
\* (its path is in unreadable) contributes nothing and the walk goes on.
RECURSIVE WalkEntries(_, _, _, _, _)
WalkEntries(entries, i, currentPath, unreadable, loc) ==
  IF i > Len(entries) THEN loc
  ELSE LET entry == entries[i]
           fullPath == Append(currentPath, entry.name)
           ext == extname(toLowerCase(entry.name))
           lineCount == countLinesInFile(entry, fullPath, unreadable)
           byLang == loc.linesByLanguage
           next ==
             IF WalkSkips(entry.name) THEN loc
             ELSE IF entry.kind = "dir"
                  THEN IF fullPath \in unreadable THEN loc
                       ELSE WalkEntries(entry.entries, 1, fullPath, unreadable, loc)
             ELSE IF entry.kind = "file" /\ ext \in CODE_EXTENSIONS_FOR_LOC_COUNT
                  THEN [totalLines |-> loc.totalLines + lineCount,
                        linesByLanguage |->
                          Spread(byLang,
                                 [e \in {ext} |->
                                    (IF ext \in DOMAIN byLang THEN byLang[ext] ELSE 0)
                                      + lineCount])]
             ELSE loc
       IN WalkEntries(entries, i + 1, currentPath, unreadable, next)

\* lines 792-824: calculateLocInDirectory(directory); tree is the content of
\* the directory (its entries), unreadable the paths whose read throws.
calculateLocInDirectory(tree, unreadable) ==
  LET empty == [totalLines |-> 0, linesByLanguage |-> EmptyObj]
  IN IF << >> \in unreadable THEN empty
     ELSE WalkEntries(tree, 1, << >>, unreadable, empty)

\* The paths the walk reads when every read succeeds: the directories it
\* lists (<< >> is the directory itself) and the files it counts.
RECURSIVE ReadsOfEntries(_, _, _)
ReadsOfEntries(entries, i, currentPath) ==
  IF i > Len(entries) THEN {}
  ELSE LET entry == entries[i]
           fullPath == Append(currentPath, entry.name)
           here ==
             IF WalkSkips(entry.name) THEN {}
             ELSE IF entry.kind = "dir"
                  THEN {fullPath} \cup ReadsOfEntries(entry.entries, 1, fullPath)
             ELSE IF entry.kind = "file"
                       /\ extname(toLowerCase(entry.name)) \in CODE_EXTENSIONS_FOR_LOC_COUNT
                  THEN {fullPath}
             ELSE {}
       IN here \cup ReadsOfEntries(entries, i + 1, currentPath)
ReadsOf(tree) == { << >> } \cup ReadsOfEntries(tree, 1, << >>)
\* The subsets of S with at most k members.
RECURSIVE UpTo(_, _)
UpTo(S, k) ==
  IF k <= 0 THEN { {} }
  ELSE UpTo(S, k - 1) \cup { u \cup {x} : u \in UpTo(S, k - 1), x \in S }

\* What git clone --depth 1 leaves in the directory, per repository.
UpstreamTree(fullName) ==
  CASE fullName = "o/r1" ->
         << File(<< "m", "a", "i", "n", ".", "g", "o" >>, CodeLines(20) \o << "", "  " >>),
            Dir(<< "w", "e", "b" >>, << File(<< "a", "p", "p", ".", "t", "s" >>, CodeLines(10)) >>),
            File(<< "R", "E", "A", "D", "M", "E", ".", "m", "d" >>, CodeLines(3)) >>
    [] fullName = "o/r2" -> << File(<< "m", "a", "i", "n", ".", "g", "o" >>, CodeLines(12)) >>
    [] OTHER -> << >>

\* The entries a clone of repository o/r7 may hold at its top.
TreePool ==
  << File(<< "a", ".", "g", "o" >>, << "x", "", "x", " " >>),
     File(<< "B", ".", "P", "Y" >>, << "x" >>),
     File(<< "r", ".", "m", "d" >>, << "x", "x", "x" >>),
     File(<< ".", "x", ".", "g", "o" >>, << "x" >>),
     Dir(<< "P", "o", "d", "s" >>, << File(<< "p", ".", "c" >>, << "x", "x", "x", "x" >>) >>),
     Dir(<< "C", "a", "r", "t", "h", "a", "g", "e" >>, << File(<< "k", ".", "h" >>, << "x" >>) >>),
     Dir(<< "B", "u", "i", "l", "d" >>, << File(<< "o", ".", "j", "s" >>, << "x" >>) >>),
     Dir(<< "s", "r", "c" >>, << File(<< "m", ".", "t", "s" >>, << "x", "x" >>),
                     Dir(<< ".", "g", "i", "t" >>, << File(<< "h", ".", "c" >>, << "x" >>) >>),
                     Link(<< "l", ".", "g", "o" >>) >>) >>
\* The entries of TreePool at the positions S, in order.
RECURSIVE PoolEntries(_, _)
PoolEntries(S, i) ==
  IF i > Len(TreePool) THEN << >>
  ELSE (IF i \in S THEN << TreePool[i] >> ELSE << >>) \o PoolEntries(S, i + 1)
R7 == [id |-> "7", name |-> "r7", fullName |-> "o/r7", url |-> "https://h/o/r7"]
\* The contents a clone of the repository may have.
CloneTrees(fullName) ==
  IF fullName = R7.fullName
  THEN { PoolEntries(S, 1) : S \in SUBSET (1..Len(TreePool)) }
  ELSE { UpstreamTree(fullName) }

\* Rows of github_configs. NoConfig: the team has no row.
NoConfig == [present |-> FALSE]
GithubConfig(rootUrl, accessToken, selectedRepos) ==
  [present |-> TRUE, rootUrl |-> rootUrl, accessToken |-> accessToken,
   selectedRepos |-> selectedRepos]
\* Configurations saveGithubConfig is called with: the root URL is "" (not
\* given) or a URL; the token likewise.
Configs ==
  { GithubConfig("", "tok", << >>), GithubConfig("https://github.com/acme", "", << >>) }
    \cup { GithubConfig("https://github.com/acme", "tok", sel) : sel \in Selections }

\* ------------------------------------------------------------------- state
VARIABLES
  teams,            \* table teams: the teams that exist
  store,            \* table github_team_metrics: team -> (periodKey -> parsed row)
  config,           \* table github_configs: team -> row or NoConfig
  dbUp,             \* the database answers (FALSE: every store call throws)
  tmpDirs,          \* the gh-loc-* directories that exist on the filesystem
  faults,           \* environment failures so far
  calls,            \* refreshGithubMetrics calls started so far
  \* --- the running refreshGithubMetrics call
  pc,               \* the await the call stands at
  teamId,           \* its first argument
  repoArg,          \* its second argument, repoIdentifiersToRefreshArg
  existingMetrics,  \* line 828
  repos,            \* reposToProcessForMetrics
  idx,              \* position of the running for-of loop in repos
  acc,              \* accumulators of the stage in progress
  period,           \* index in periods of the window in progress
  err,              \* error.message of the exception the catch block holds
  currentMetricsReturn, \* line 1094
  result,           \* the value returned to the caller
  \* --- observation (not read by the code)
  obs,              \* what the running call has done so far
  \* --- the running scanGithubRepos call
  scan,
  \* --- the running _fetchAndSaveJiraMetrics call
  jira,
  \* --- a second refreshGithubMetrics call for the same team, by its store steps
  peer

vars == << teams, store, config, dbUp, tmpDirs, faults, calls, pc, teamId, repoArg,
           existingMetrics, repos, idx, acc, period, err, currentMetricsReturn,
           result, obs, scan, jira, peer >>

callVars == << teamId, repoArg, existingMetrics, repos, idx, acc, period, err,
               currentMetricsReturn, result >>

NoResult == [returned |-> FALSE]
NoObs ==
  [ path |-> "none",          \* which return statement ended the call
    preStore |-> EmptyObj,    \* the team's rows when the call began
    netCalls |-> 0,           \* fetch() calls issued
    cloneCalls |-> 0,         \* git clone commands issued
    written |-> << >>,        \* period keys of the writes that succeeded, in order
    cleared |-> FALSE,        \* clearGithubTeamMetrics succeeded
    thrown |-> << >>,         \* where exceptions reached the outer catch block
    dbFaults |-> 0,           \* store and configuration calls that threw
    hostFaults |-> 0,         \* requests, clones and cleanups that failed
    langOk |-> << >>,         \* repositories whose language request succeeded
    requests |-> << >>,       \* the requests and clones issued, in order
    clones |-> << >>,         \* the clones that succeeded and what was counted in them
    linked |-> {},            \* the commit pages answered with a rel="next" link
    handlerSaved |-> FALSE ]  \* the write of the catch block succeeded

\* ------------------------------------------------------------ the database
\* JSON.stringify(data) followed, at the next read, by JSON.parse: a property
\* whose value is undefined is not written.
JsonRoundTrip(data) ==
  [k \in { f \in DOMAIN data :
             ~(f = "clonedLoCLastRefreshed" /\ data[f] = Undefined) } |-> data[k]]

\* A write that merges the new data into the stored record.
saveGithubTeamMetric_Merge(st, t, periodKey, data) ==
  [st EXCEPT ![t] =
     [k \in (DOMAIN st[t]) \cup {periodKey} |->
        IF k = periodKey
        THEN Spread(GetOrEmpty(st[t], periodKey), JsonRoundTrip(data))
        ELSE st[t][k]]]

\* An INSERT OR IGNORE: the row that is there stays.
saveGithubTeamMetric_KeepFirst(st, t, periodKey, data) ==
  [st EXCEPT ![t] =
     [k \in (DOMAIN st[t]) \cup {periodKey} |->
        IF k = periodKey /\ k \notin DOMAIN st[t] THEN JsonRoundTrip(data) ELSE st[t][k]]]

\* saveGithubTeamMetric: INSERT OR REPLACE of the row (teamId, periodKey).
saveGithubTeamMetric(st, t, periodKey, data) ==
  [st EXCEPT ![t] =
     [k \in (DOMAIN st[t]) \cup {periodKey} |->
        IF k = periodKey THEN JsonRoundTrip(data) ELSE st[t][k]]]

\* getGithubTeamMetricsFromDb: every row of the team, keyed by periodKey.
getGithubTeamMetricsFromDb(st, t) == st[t]

\* A clear that deletes the overall_snapshot row and leaves the window rows.
clearGithubTeamMetrics_SnapshotOnly(st, t) ==
  [st EXCEPT ![t] = [k \in (DOMAIN st[t]) \ {OVERALL} |-> st[t][k]]]

\* A DELETE without its WHERE clause: the rows of every team go.
clearGithubTeamMetrics_AllTeams(st, t) == [u \in DOMAIN st |-> EmptyObj]

\* clearGithubTeamMetrics: DELETE ... WHERE teamId = ?
clearGithubTeamMetrics(st, t) == [st EXCEPT ![t] = EmptyObj]

\* getGithubConfigFromDb
getGithubConfigFromDb(cf, t) == cf[t]

\* A store call throws when the database is down. A call to a database that is
\* up may fail too, which is one environment failure: the failure is that of
\* this call alone, or the database goes down and stays down until it recovers.
DbFailure ==
  \/ /\ ~dbUp
     /\ UNCHANGED << dbUp, faults >>
  \/ /\ dbUp
     /\ faults < MaxFaults
     /\ faults' = faults + 1
     /\ dbUp' \in BOOLEAN
DbSuccess == dbUp /\ UNCHANGED << dbUp, faults >>

\* No scanGithubRepos call is running.
NoScan == [pc |-> "idle"]

\* No _fetchAndSaveJiraMetrics call has run: the team has no row in
\* jira_team_metrics.
NoJiraRow == [present |-> FALSE]
NoJira == [pc |-> "idle", saved |-> NoJiraRow]

\* No second refreshGithubMetrics call has begun.
NoPeer == [pc |-> "idle"]

\* ------------------------------------------------------------------- Init
Init ==
  /\ teams = {"A"}
  /\ store = [t \in Teams |-> EmptyObj]
  /\ config = [t \in Teams |-> NoConfig]
  /\ dbUp = TRUE
  /\ tmpDirs = {}
  /\ faults = 0
  /\ calls = 0
  /\ pc = "idle"
  /\ teamId = "A"
  /\ repoArg = << >>
  /\ existingMetrics = EmptyObj
  /\ repos = << >>
  /\ idx = 0
  /\ acc = EmptyObj
  /\ period = 0
  /\ err = ""
  /\ currentMetricsReturn = EmptyObj
  /\ result = NoResult
  /\ obs = NoObs
  /\ scan = NoScan
  /\ jira = NoJira
  /\ peer = NoPeer

Idle == pc \in {"idle", "done"}

\* saveGithubConfig(formData): INSERT OR REPLACE of the team's row.
SaveGithubConfigFrom(formData) ==
  /\ Idle /\ dbUp
  /\ scan.pc \in {"idle", "done"}
  /\ \E t \in teams, c \in formData :
       /\ c # config[t]
       /\ config' = [config EXCEPT ![t] = c]
  /\ pc' = "idle"
  /\ UNCHANGED << teams, store, dbUp, tmpDirs, faults, calls, callVars, obs >>

SaveGithubConfig ==
  /\ calls < MaxCalls
  /\ SaveGithubConfigFrom(Configs)
  /\ UNCHANGED << scan, jira, peer >>

\* The database comes back between two calls.
DbRecover ==
  /\ Idle /\ ~dbUp
  /\ dbUp' = TRUE
  /\ pc' = "idle"
  /\ scan.pc \in {"idle", "done"}
  /\ UNCHANGED << scan, jira, peer, teams, store, config, tmpDirs, faults, calls, callVars, obs >>

\* ------------------------------------------------- refreshGithubMetrics
\* A function without the try/catch of lines 827 and 1091: the exception
\* leaves the function and no statement of it runs any more.
Throw_Uncaught(message, where, existing) ==
  /\ err' = message
  /\ currentMetricsReturn' = existing
  /\ obs' = [obs EXCEPT !.thrown = Append(@, where), !.dbFaults = @ + 1]
  /\ pc' = "uncaught"

\* A catch block that reads the store again whatever existingMetrics holds.
Throw_Reread(message, where, existing) ==
  /\ err' = message
  /\ currentMetricsReturn' = existing
  /\ obs' = [obs EXCEPT !.thrown = Append(@, where), !.dbFaults = @ + 1]
  /\ pc' = "catchRead"

\* An exception reaches the catch block of line 1091. The block first reads
\* the store again when existingMetrics is still empty (line 1095).
Throw(message, where, existing) ==
  /\ err' = message
  /\ currentMetricsReturn' = existing
  /\ obs' = [obs EXCEPT !.thrown = Append(@, where), !.dbFaults = @ + 1]
  /\ pc' = IF DOMAIN existing = {} THEN "catchRead" ELSE "catchSave"

\* The call begins (line 827-830), its second argument one of args.
StartWith(args) ==
  /\ Idle
  /\ calls < MaxCalls
  /\ \E t \in teams, a \in args :
       /\ teamId' = t
       /\ repoArg' = a
       /\ obs' = [NoObs EXCEPT !.preStore = store[t]]
  /\ calls' = calls + 1
  /\ pc' = "getExisting"
  /\ existingMetrics' = EmptyObj
  /\ repos' = << >>
  /\ idx' = 0
  /\ acc' = EmptyObj
  /\ period' = 0
  /\ err' = ""
  /\ currentMetricsReturn' = EmptyObj
  /\ result' = NoResult
  /\ UNCHANGED << scan, jira, peer, teams, store, config, dbUp, tmpDirs, faults >>

Start == StartWith(RepoLists)

\* line 831: existingMetrics = await getGithubTeamMetricsFromDb(teamId)
GetExisting ==
  /\ pc = "getExisting"
  /\ \/ /\ DbSuccess
        /\ existingMetrics' = getGithubTeamMetricsFromDb(store, teamId)
        /\ pc' = "getConfig"
        /\ UNCHANGED << err, currentMetricsReturn, obs >>
     \/ /\ DbFailure
        /\ Throw("metrics read failed", "getExisting", existingMetrics)
        /\ UNCHANGED existingMetrics
  /\ UNCHANGED << scan, jira, peer, teams, store, config, tmpDirs, calls, teamId, repoArg, repos, idx, acc,
                  period, result >>

\* Messages of the informational records (info.message), as tuples of the
\* fixed text and the inserted error message.
MsgConfigMissing ==
  << "GitHub configuration (Root URL or Access Token) not fully configured for this team." >>
MsgNoRepos ==
  << "No repositories selected or configured for this team. GitHub metrics cleared." >>
MsgRefreshFailed(errorMessage) == << "Refresh failed: ", errorMessage >>
MsgRefreshed == << "GitHub metrics (API & Cloned LoC) refreshed and saved." >>

\* A configuration test that does not look at the access token.
ConfigMissing_NoTokenTest(githubConfig) ==
  \/ ~githubConfig.present
  \/ githubConfig.rootUrl = ""

\* line 834: !githubConfig || !githubConfig.accessToken || !githubConfig.rootUrl
ConfigMissing(githubConfig) ==
  \/ ~githubConfig.present
  \/ githubConfig.accessToken = ""
  \/ githubConfig.rootUrl = ""

\* A resolution that prefers the saved selection to the explicit argument.
ResolveRepos_SavedFirst(arg, savedSelectedReposConfig) ==
  IF Len(savedSelectedReposConfig) > 0 THEN savedSelectedReposConfig
  ELSE << >>

\* A resolution that never looks at the saved selection.
ResolveRepos_ArgOnly(arg, savedSelectedReposConfig) ==
  IF Len(arg) > 0 THEN arg ELSE << >>

\* lines 849-868: the explicit argument, else the saved selection, else none.
ResolveRepos(arg, savedSelectedReposConfig) ==
  IF Len(arg) > 0 THEN arg
  ELSE IF Len(savedSelectedReposConfig) > 0 THEN savedSelectedReposConfig
  ELSE << >>

\* The repositories a loop does not skip: line 880 and line 1007 test
\* !repo.fullName, line 937 tests !repo.url || !repo.fullName.
HasFullName(repo) == repo.fullName # ""
HasUrlAndFullName(repo) == repo.url # "" /\ repo.fullName # ""

\* The next position after i of a for-of loop over rs whose body is not
\* skipped by `continue`; Len(rs) + 1 when the loop is over.
NextApiIdx(rs, i) ==
  IF \E j \in (i+1)..Len(rs) : HasFullName(rs[j])
  THEN CHOOSE j \in (i+1)..Len(rs) :
         /\ HasFullName(rs[j])
         /\ \A k \in (i+1)..(j-1) : ~HasFullName(rs[k])
  ELSE Len(rs) + 1
NextCloneIdx(rs, i) ==
  IF \E j \in (i+1)..Len(rs) : HasUrlAndFullName(rs[j])
  THEN CHOOSE j \in (i+1)..Len(rs) :
         /\ HasUrlAndFullName(rs[j])
         /\ \A k \in (i+1)..(j-1) : ~HasUrlAndFullName(rs[k])
  ELSE Len(rs) + 1

\* Accumulators that start from the byte total of the stored snapshot.
SnapshotAcc_Carry ==
  [ overallApiTotalBytes |->
      IF "apiTotalBytes_current" \in DOMAIN GetOrEmpty(existingMetrics, OVERALL)
      THEN existingMetrics[OVERALL].apiTotalBytes_current ELSE 0,
    overallApiBytesByLanguage |-> EmptyObj,
    overallLatestTags |-> << >>,
    overallApiProcessedRepoFullNames |-> << >>,
    overallClonedActualTotalLines |-> 0,
    overallClonedActualLinesByLanguage |-> EmptyObj,
    overallClonedProcessedRepoFullNames |-> << >>,
    clonedLoCTimestamp |-> Undefined,
    tempDirObj |-> "" ]

\* lines 873-877 and 931-934: the accumulators of the snapshot and of the
\* cloned line count.
SnapshotAcc ==
  [ overallApiTotalBytes |-> 0,
    overallApiBytesByLanguage |-> EmptyObj,
    overallLatestTags |-> << >>,
    overallApiProcessedRepoFullNames |-> << >>,
    overallClonedActualTotalLines |-> 0,
    overallClonedActualLinesByLanguage |-> EmptyObj,
    overallClonedProcessedRepoFullNames |-> << >>,
    clonedLoCTimestamp |-> Undefined,
    tempDirObj |-> "" ]

\* Where the call stands once the snapshot loop has passed position i, and
\* once the clone loop has passed position i.
AfterCloneIdx(rs, i) ==
  IF NextCloneIdx(rs, i) <= Len(rs)
  THEN [pc |-> "cloneCreateDir", idx |-> NextCloneIdx(rs, i)]
  ELSE [pc |-> "saveSnapshot", idx |-> 0]
AfterSnapshotIdx(rs, i) ==
  IF NextApiIdx(rs, i) <= Len(rs)
  THEN [pc |-> "snapshotRepo", idx |-> NextApiIdx(rs, i)]
  ELSE AfterCloneIdx(rs, 0)

\* lines 832-877: the configuration is read and the repository set resolved.
GetConfig ==
  /\ pc = "getConfig"
  /\ \/ /\ DbSuccess
        /\ LET githubConfig == getGithubConfigFromDb(config, teamId) IN
           IF ConfigMissing(githubConfig)
           THEN /\ pc' = "saveConfigMissing"
                /\ UNCHANGED << repos, idx, acc >>
           ELSE LET rs == ResolveRepos(repoArg, githubConfig.selectedRepos) IN
                IF Len(rs) = 0
                THEN /\ pc' = "clearNoRepos"
                     /\ UNCHANGED << repos, idx, acc >>
                ELSE /\ repos' = rs
                     /\ acc' = SnapshotAcc
                     /\ pc' = AfterSnapshotIdx(rs, 0).pc
                     /\ idx' = AfterSnapshotIdx(rs, 0).idx
        /\ UNCHANGED << err, currentMetricsReturn, obs >>
     \/ /\ DbFailure
        /\ Throw("config read failed", "getConfig", existingMetrics)
        /\ UNCHANGED << repos, idx, acc >>
  /\ UNCHANGED << scan, jira, peer, teams, store, config, tmpDirs, calls, teamId, repoArg, existingMetrics,
                  period, result >>

\* The record of a successful write, for the observation.
Wrote(o, periodKey) == [o EXCEPT !.written = Append(@, periodKey)]

\* lines 835-838: the configuration is incomplete.
SaveConfigMissing ==
  /\ pc = "saveConfigMissing"
  /\ LET overall == GetOrEmpty(existingMetrics, OVERALL)
         info == [info |-> [message |-> MsgConfigMissing]]
     IN
     \/ /\ DbSuccess
        /\ store' = saveGithubTeamMetric(store, teamId, OVERALL,
                      Spread(overall, Spread(info, [apiLastRefreshed |-> Timestamp(calls)])))
        /\ result' = [returned |-> TRUE, success |-> FALSE, message |-> MsgConfigMissing,
                      data |-> Spread(existingMetrics,
                                      [overall_snapshot |-> Spread(overall, info)])]
        /\ obs' = [Wrote(obs, OVERALL) EXCEPT !.path = "config_missing"]
        /\ pc' = "done"
        /\ UNCHANGED << err, currentMetricsReturn >>
     \/ /\ DbFailure
        /\ Throw("metrics write failed", "saveConfigMissing", existingMetrics)
        /\ UNCHANGED << store, result >>
  /\ UNCHANGED << scan, jira, peer, teams, config, tmpDirs, calls, teamId, repoArg, existingMetrics, repos, idx,
                  acc, period >>

\* line 855 (and 863): no repository to process, the team's rows are deleted.
ClearNoRepos ==
  /\ pc = "clearNoRepos"
  /\ \/ /\ DbSuccess
        /\ store' = clearGithubTeamMetrics(store, teamId)
        /\ obs' = [obs EXCEPT !.cleared = TRUE]
        /\ pc' = "saveNoRepos"
        /\ UNCHANGED << err, currentMetricsReturn >>
     \/ /\ DbFailure
        /\ Throw("metrics clear failed", "clearNoRepos", existingMetrics)
        /\ UNCHANGED store
  /\ UNCHANGED << scan, jira, peer, teams, config, tmpDirs, calls, teamId, repoArg, existingMetrics, repos, idx,
                  acc, period, result >>

\* lines 856-859: the informational record of the cleared team.
SaveNoRepos ==
  /\ pc = "saveNoRepos"
  /\ LET info == [info |-> [message |-> MsgNoRepos]] IN
     \/ /\ DbSuccess
        /\ store' = saveGithubTeamMetric(store, teamId, OVERALL,
                      Spread(info, [apiLastRefreshed |-> Timestamp(calls)]))
        /\ result' = [returned |-> TRUE, success |-> TRUE, message |-> MsgNoRepos,
                      data |-> [overall_snapshot |-> info]]
        /\ obs' = [Wrote(obs, OVERALL) EXCEPT !.path = "no_repos"]
        /\ pc' = "done"
        /\ UNCHANGED << err, currentMetricsReturn >>
     \/ /\ DbFailure
        /\ Throw("metrics write failed", "saveNoRepos", existingMetrics)
        /\ UNCHANGED << store, result >>
  /\ UNCHANGED << scan, jira, peer, teams, config, tmpDirs, calls, teamId, repoArg, existingMetrics, repos, idx,
                  acc, period >>

\* lines 1094-1102: existingMetrics is empty, the catch block reads the store;
\* when that read throws too it falls back to an informational record.
MsgNoPrevious == << "Refresh failed, and could not retrieve previous metrics: ",
                    "metrics read failed" >>
CatchRead ==
  /\ pc = "catchRead"
  /\ \/ /\ DbSuccess
        /\ currentMetricsReturn' = getGithubTeamMetricsFromDb(store, teamId)
        /\ UNCHANGED obs
     \/ /\ DbFailure
        /\ currentMetricsReturn' =
             [overall_snapshot |-> [info |-> [message |-> MsgNoPrevious]]]
        /\ obs' = [obs EXCEPT !.dbFaults = @ + 1]
  /\ pc' = "catchSave"
  /\ UNCHANGED << scan, jira, peer, teams, store, config, tmpDirs, calls, teamId, repoArg, existingMetrics,
                  repos, idx, acc, period, err, result >>

\* lines 1103-1114: the failure is recorded in overall_snapshot (a failure of
\* that write is logged and dropped) and the failed result is returned.
CatchSave ==
  /\ pc = "catchSave"
  /\ LET overall == GetOrEmpty(currentMetricsReturn, OVERALL)
         info == [info |-> [message |-> MsgRefreshFailed(err)]]
     IN
     /\ \/ /\ DbSuccess
           /\ store' = saveGithubTeamMetric(store, teamId, OVERALL,
                         Spread(overall, Spread(info, [apiLastRefreshed |-> Timestamp(calls)])))
           /\ obs' = [Wrote(obs, OVERALL) EXCEPT !.path = "exception",
                                                 !.handlerSaved = TRUE]
        \/ /\ DbFailure
           /\ obs' = [obs EXCEPT !.path = "exception", !.dbFaults = @ + 1]
           /\ UNCHANGED store
     /\ result' = [returned |-> TRUE, success |-> FALSE, message |-> << err >>,
                   data |-> Spread(currentMetricsReturn,
                                   [overall_snapshot |-> Spread(overall, info)])]
  /\ pc' = "done"
  /\ UNCHANGED << scan, jira, peer, teams, config, tmpDirs, calls, teamId, repoArg, existingMetrics, repos, idx,
                  acc, period, err, currentMetricsReturn >>

\* ----------------------------------------------------- snapshot collection
\* What a request to the host can do: answer 2xx, answer another status, or
\* fail in fetch() itself. The last two are environment failures.
Outcomes == {"ok", "non2xx", "throw"}
Failed(outcome) == IF outcome = "ok" THEN 0 ELSE 1

\* One fetch() or git clone the call issued: what it asked for (the stage's
\* window, 0 for the snapshot and clone stages; the repository; the page or
\* commit) and how it ended ("ok", "failed", or "nonarray" for a 2xx body that
\* is no array).
Request(kind, p, fullName, item, outcome) ==
  << kind, p, fullName, item,
     IF outcome \in {"ok", "cloned"} THEN "ok"
     ELSE IF outcome = "nonarray" THEN "nonarray" ELSE "failed" >>
\* The fetchCommitDetails calls for the commits at positions wanted of items,
\* in order; those at positions failing failed.
RECURSIVE DetailRequests(_, _, _, _, _, _)
DetailRequests(p, fullName, items, i, wanted, failing) ==
  IF i > Len(items) THEN << >>
  ELSE (IF i \in wanted
        THEN << Request("commit", p, fullName, items[i].sha,
                        IF i \in failing THEN "failed" ELSE "ok") >>
        ELSE << >>)
       \o DetailRequests(p, fullName, items, i + 1, wanted, failing)

\* A division that drops the fraction instead of rounding.
MathRound_Floor(n, d) == n \div d

\* Math.round(n / d) for n >= 0, d > 0: halves round up.
MathRound(n, d) == (2 * n + d) \div (2 * d)

\* An accumulation that assigns a language's bytes instead of adding them.
AddLanguages_Assign(a, languages) ==
  [a EXCEPT !.overallApiBytesByLanguage = Spread(@, languages),
            !.overallApiTotalBytes = @ + SumFun(languages)]

\* lines 889-892: for (lang in languages) { byLanguage[lang] += ...; total += ... }
RECURSIVE AddLanguages(_, _)
AddLanguages(a, languages) ==
  IF DOMAIN languages = {} THEN a
  ELSE LET lang == CHOOSE l \in DOMAIN languages : TRUE
           by == a.overallApiBytesByLanguage
           old == IF lang \in DOMAIN by THEN by[lang] ELSE 0
           next == [a EXCEPT
                      !.overallApiBytesByLanguage =
                         Spread(by, [l \in {lang} |-> old + languages[lang]]),
                      !.overallApiTotalBytes = @ + languages[lang]]
       IN AddLanguages(next, [l \in (DOMAIN languages) \ {lang} |-> languages[l]])

\* lines 904-915: one entry per tag; the date is the commit's, or now when the
\* commit detail could not be fetched (failing: positions of those tags).
RECURSIVE TagEntries(_, _, _, _, _)
TagEntries(repoData, tags, i, failing, now) ==
  IF i > Len(tags) THEN << >>
  ELSE << [name |-> << repoData.name, "/", tags[i].name >>,
           date |-> IF i \in failing THEN now
                    ELSE UpstreamCommitDetail(tags[i].sha).date] >>
       \o TagEntries(repoData, tags, i + 1, failing, now)

\* A list left in the order of collection.
SortTags_Unsorted(tags) == tags

\* line 923: sort((a, b) => date(b) - date(a)), a stable sort, newest first.
RECURSIVE InsertTag(_, _)
InsertTag(sorted, tag) ==
  IF sorted = << >> THEN << tag >>
  ELSE IF Head(sorted).date >= tag.date
       THEN << Head(sorted) >> \o InsertTag(Tail(sorted), tag)
       ELSE << tag >> \o sorted
RECURSIVE SortTags(_)
SortTags(tags) ==
  IF tags = << >> THEN << >>
  ELSE InsertTag(SortTags(SubSeq(tags, 1, Len(tags) - 1)), tags[Len(tags)])

\* A loop without its catch block: the failure reaches the outer handler.
SkipRepo_Rethrow(after) == [pc |-> "catchSave", idx |-> after.idx]

\* A loop that runs the failed iteration again.
SkipRepo_Retry(after) == [pc |-> pc, idx |-> idx]

\* The catch blocks inside the loops (lines 896-898, 919-921, 962-964 and
\* 1070-1072) and the non-2xx branches log the failure; the loop goes on where
\* it would have gone on without the failure.
SkipRepo(after) == after

\* lines 879-923: one iteration of the snapshot loop, for repos[idx]: the
\* language request, the tag request and one commit request per tag. A failed
\* request is logged and its result left out.
SnapshotRepo ==
  /\ pc = "snapshotRepo"
  /\ LET repoData == repos[idx]
         tags == TagsPage(repoData.fullName)
     IN
     \E langOutcome \in Outcomes, tagsOutcome \in Outcomes,
        failing \in SUBSET (1..Len(tags)) :
       LET n == Failed(langOutcome) + Failed(tagsOutcome) + Cardinality(failing)
           a1 == [acc EXCEPT !.overallApiProcessedRepoFullNames =
                                Append(@, repoData.fullName)]
           a2 == IF langOutcome = "ok"
                 THEN AddLanguages(a1, UpstreamLanguages(repoData.fullName))
                 ELSE a1
           a3 == IF tagsOutcome = "ok"
                 THEN [a2 EXCEPT !.overallLatestTags =
                         @ \o TagEntries(repoData, tags, 1, failing, NowDay(calls))]
                 ELSE a2
           after == IF n > 0 THEN SkipRepo(AfterSnapshotIdx(repos, idx))
                    ELSE AfterSnapshotIdx(repos, idx)
       IN
       /\ tagsOutcome # "ok" => failing = {}
       /\ faults + n <= MaxFaults
       /\ faults' = faults + n
       /\ acc' = IF after.pc = "snapshotRepo" THEN a3
                 ELSE [a3 EXCEPT !.overallLatestTags = SortTags(@)]
       /\ obs' = [obs EXCEPT
                    !.netCalls = @ + 2 + (IF tagsOutcome = "ok" THEN Len(tags) ELSE 0),
                    !.hostFaults = @ + n,
                    !.langOk = IF langOutcome = "ok"
                               THEN Append(@, repoData.fullName) ELSE @,
                    !.requests =
                       @ \o << Request("languages", 0, repoData.fullName, 0, langOutcome),
                               Request("tags", 0, repoData.fullName, 0, tagsOutcome) >>
                         \o (IF tagsOutcome = "ok"
                             THEN DetailRequests(0, repoData.fullName, tags, 1,
                                                 1..Len(tags), failing)
                             ELSE << >>)]
       /\ pc' = after.pc
       /\ idx' = after.idx
  /\ UNCHANGED << scan, jira, peer, teams, store, config, dbUp, tmpDirs, calls, teamId, repoArg, existingMetrics,
                  repos, period, err, currentMetricsReturn, result >>

\* ------------------------------------------------------- cloned line count
\* lines 945-951: tmp.dirSync creates the directory (or throws: the repository
\* is skipped with nothing to remove) and git clone is started in it.
TempDirName(n, i) == << "gh-loc-", n, i >>
CloneCreateDir ==
  /\ pc = "cloneCreateDir"
  /\ \/ /\ tmpDirs' = tmpDirs \cup { TempDirName(calls, idx) }
        /\ acc' = [acc EXCEPT !.tempDirObj = "created"]
        /\ obs' = [obs EXCEPT !.cloneCalls = @ + 1]
        /\ pc' = "cloneRun"
        /\ UNCHANGED << idx, faults >>
     \/ /\ faults < MaxFaults
        /\ faults' = faults + 1
        /\ pc' = SkipRepo(AfterCloneIdx(repos, idx)).pc
        /\ idx' = SkipRepo(AfterCloneIdx(repos, idx)).idx
        /\ obs' = [obs EXCEPT !.hostFaults = @ + 1]
        /\ UNCHANGED << tmpDirs, acc >>
  /\ UNCHANGED << scan, jira, peer, teams, store, config, dbUp, calls, teamId, repoArg, existingMetrics, repos,
                  period, err, currentMetricsReturn, result >>

\* lines 956-958: the repository's lines per extension are added to the totals.
AddLines(by, linesByLanguage) ==
  [ext \in (DOMAIN by) \cup (DOMAIN linesByLanguage) |->
     (IF ext \in DOMAIN by THEN by[ext] ELSE 0)
       + (IF ext \in DOMAIN linesByLanguage THEN linesByLanguage[ext] ELSE 0)]

\* lines 954-960: the clone succeeded, its lines are counted and added.
CloneCounted(a, repo, locData, now) ==
  [a EXCEPT
     !.overallClonedActualTotalLines = @ + locData.totalLines,
     !.overallClonedActualLinesByLanguage = AddLines(@, locData.linesByLanguage),
     !.overallClonedProcessedRepoFullNames = Append(@, repo.fullName),
     !.clonedLoCTimestamp = IF @ = Undefined THEN now ELSE @]

\* lines 951-972: git clone ends (done, failed, or killed after the 300 s
\* timeout); on success the lines of the clone (tree) are counted, some reads
\* (unreadable) failing inside calculateLocInDirectory; in every case the
\* finally block calls removeCallback, whose own failure is logged and dropped.
CloneOutcomes == {"cloned", "failed", "timeout"}
CloneRun ==
  /\ pc = "cloneRun"
  /\ \E outcome \in CloneOutcomes, removed \in BOOLEAN,
        tree \in CloneTrees(repos[idx].fullName) :
     \E unreadable \in (IF outcome = "cloned"
                        THEN UpTo(ReadsOf(tree), MaxFaults - faults) ELSE { {} }) :
       LET n == (IF outcome = "cloned" THEN 0 ELSE 1) + (IF removed THEN 0 ELSE 1)
                  + Cardinality(unreadable)
           locData == calculateLocInDirectory(tree, unreadable)
           a1 == IF outcome = "cloned"
                 THEN CloneCounted(acc, repos[idx], locData, Timestamp(calls))
                 ELSE acc
           after == IF outcome = "cloned" THEN AfterCloneIdx(repos, idx)
                    ELSE SkipRepo(AfterCloneIdx(repos, idx))
       IN
       /\ faults + n <= MaxFaults
       /\ faults' = faults + n
       /\ acc' = [a1 EXCEPT !.tempDirObj = ""]
       /\ tmpDirs' = IF removed THEN tmpDirs \ { TempDirName(calls, idx) } ELSE tmpDirs
       /\ obs' = [obs EXCEPT
                    !.hostFaults = @ + n,
                    !.requests = Append(@, Request("clone", 0, repos[idx].fullName, 0, outcome)),
                    !.clones = IF outcome = "cloned"
                               THEN Append(@, [fullName |-> repos[idx].fullName,
                                               tree |-> tree,
                                               unreadable |-> unreadable,
                                               locData |-> locData])
                               ELSE @]
       /\ pc' = after.pc
       /\ idx' = after.idx
  /\ UNCHANGED << scan, jira, peer, teams, store, config, dbUp, calls, teamId, repoArg, existingMetrics, repos,
                  period, err, currentMetricsReturn, result >>

\* ----------------------------------------------------- the snapshot record
\* lines 925-929: the estimated lines, from the bytes.
EstimatedLinesByLang(bytesByLanguage) ==
  [lang \in DOMAIN bytesByLanguage |->
     MathRound(bytesByLanguage[lang], ESTIMATED_BYTES_PER_LINE)]

Take(s, n) == SubSeq(s, 1, IF Len(s) < n THEN Len(s) ELSE n)

\* lines 975-989: overallSnapshotData.
OverallSnapshotData(a, overallApiTimestamp) ==
  [ apiTotalBytes_current |-> a.overallApiTotalBytes,
    apiBytesByLanguage_current |-> a.overallApiBytesByLanguage,
    apiEstimatedTotalLines_current |->
      MathRound(a.overallApiTotalBytes, ESTIMATED_BYTES_PER_LINE),
    apiEstimatedLinesByLanguage_current |->
      EstimatedLinesByLang(a.overallApiBytesByLanguage),
    apiProcessedRepoFullNames |-> a.overallApiProcessedRepoFullNames,
    apiLastRefreshed |-> overallApiTimestamp,
    clonedActualTotalLines |-> a.overallClonedActualTotalLines,
    clonedActualLinesByLanguage |-> a.overallClonedActualLinesByLanguage,
    clonedProcessedRepoFullNames |-> a.overallClonedProcessedRepoFullNames,
    clonedLoCLastRefreshed |-> a.clonedLoCTimestamp,
    latestTags |-> Take(a.overallLatestTags, 10) ]

\* lines 1002-1004: the accumulators of one window; page is the commit page
\* the next request asks for (commitsUrl).
WindowAcc ==
  [ linesAddedInPeriod |-> 0,
    uniqueCommittersInPeriod |-> << >>,
    periodApiProcessedRepoFullNames |-> << >>,
    page |-> 1 ]

\* A window loop that stops after its first repository.
AfterWindowIdx_First(rs, i) == [pc |-> "saveWindow", idx |-> 0]

\* Where the call stands once the window loop has passed position i of repos
\* in window p.
AfterWindowIdx(rs, i) ==
  IF NextApiIdx(rs, i) <= Len(rs)
  THEN [pc |-> "windowPage", idx |-> NextApiIdx(rs, i)]
  ELSE [pc |-> "saveWindow", idx |-> 0]

\* line 990: the snapshot is written; lines 992-1004: the first window begins.
SaveSnapshot ==
  /\ pc = "saveSnapshot"
  /\ \/ /\ DbSuccess
        /\ store' = saveGithubTeamMetric(store, teamId, OVERALL,
                                         OverallSnapshotData(acc, Timestamp(calls)))
        /\ obs' = Wrote(obs, OVERALL)
        /\ period' = 1
        /\ acc' = WindowAcc
        /\ pc' = AfterWindowIdx(repos, 0).pc
        /\ idx' = AfterWindowIdx(repos, 0).idx
        /\ UNCHANGED << err, currentMetricsReturn >>
     \/ /\ DbFailure
        /\ Throw("metrics write failed", "saveSnapshot", existingMetrics)
        /\ UNCHANGED << store, period, acc, idx >>
  /\ UNCHANGED << scan, jira, peer, teams, config, tmpDirs, calls, teamId, repoArg, existingMetrics, repos,
                  result >>

\* ------------------------------------------------- windowed commit history
\* The commits of the repository the host lists for [now - days, now].
CommitsInWindow(fullName, days) ==
  SelectSeq(UpstreamCommits(fullName), LAMBDA c : c.age <= days)

\* The host serves the listing two commits a page, and names the next page in
\* the Link header while commits remain; a page past the end is empty.
CommitsPage(listing, page) ==
  SubSeq(listing, 2 * page - 1, IF 2 * page < Len(listing) THEN 2 * page ELSE Len(listing))
HasNextLink(listing, page) == 2 * page < Len(listing)
\* The page was asked for although the listing had ended before it.
PastTheEnd(listing, page) == page > 1 /\ 2 * (page - 1) >= Len(listing)

\* line 1039: the first non-empty of the four names, else 'unknown_committer'.
CommitterLogin(commit) ==
  IF commit.authorLogin # "" THEN commit.authorLogin
  ELSE IF commit.committerLogin # "" THEN commit.committerLogin
  ELSE IF commit.authorName # "" THEN commit.authorName
  ELSE IF commit.committerName # "" THEN commit.committerName
  ELSE "unknown_committer"

\* Set.add, the set kept in insertion order (Array.from gives that order).
SetAdd(members, x) == IF x \in SeqToSet(members) THEN members ELSE Append(members, x)

\* Additions taken from the listing alone, with no fetchCommitDetails call.
CommitAdditions_StatsOnly(commit, detailFails) ==
  IF commit.stats # << >> THEN commit.stats[1] ELSE 0

\* lines 1044-1055: the additions one commit contributes: the listing's stats,
\* else those of one fetchCommitDetails call (detailFails: that call failed),
\* else nothing.
CommitAdditions(commit, detailFails) ==
  LET commitStats ==
        IF commit.stats # << >> THEN commit.stats
        ELSE IF commit.sha # "" /\ ~detailFails
             THEN << UpstreamCommitDetail(commit.sha).additions >>
             ELSE << >>
  IN IF commitStats # << >> /\ commitStats[1] # 0 THEN commitStats[1] ELSE 0

\* A commit of the page needs a fetchCommitDetails call (line 1045).
NeedsDetail(commit) == commit.stats = << >> /\ commit.sha # ""

\* lines 1038-1056: the commits of one page, in order.
RECURSIVE AddCommits(_, _, _, _)
AddCommits(a, pageCommits, i, failing) ==
  IF i > Len(pageCommits) THEN a
  ELSE LET commit == pageCommits[i]
           committerLogin == CommitterLogin(commit)
           a1 == IF committerLogin # "unknown_committer"
                 THEN [a EXCEPT !.uniqueCommittersInPeriod = SetAdd(@, committerLogin)]
                 ELSE a
           a2 == [a1 EXCEPT !.linesAddedInPeriod =
                               @ + CommitAdditions(commit, i \in failing)]
       IN AddCommits(a2, pageCommits, i + 1, failing)

\* What a commit-listing request can do: a 2xx array, another status, a
\* failure of fetch() itself, or a 2xx body that is no array (a message).
ListOutcomes == {"ok", "non2xx", "throw", "nonarray"}

\* A 2xx body that is no array counted as if it were the page of commits.
PageCommitsOf_Keep(outcome, fetchedPageCommitsData) == fetchedPageCommitsData

\* lines 1018-1036: pageCommits after a response: the array of a 2xx response,
\* or [] after another status (line 1020) or a body that is no array (line
\* 1033). When fetch() throws no commit is processed either.
PageCommitsOf(outcome, fetchedPageCommitsData) ==
  IF outcome = "ok" THEN fetchedPageCommitsData ELSE << >>

\* A loop that goes on while the Link header names a next page, whatever the
\* page held.
MorePages_LinkOnly(outcome, link, pageCommits) == outcome = "ok" /\ link

\* lines 1019-1022, 1025-1035, 1068: a further page is requested when the
\* response was a 2xx array (no break), the Link header named a next page and
\* the page held a commit: while (commitsUrl && pageCommits.length > 0).
MorePages(outcome, link, pageCommits) ==
  outcome = "ok" /\ link /\ Len(pageCommits) > 0

\* lines 1006-1073: one request of the commit listing of repos[idx] in window
\* period, and what follows it up to the next request.
WindowPage ==
  /\ pc = "windowPage"
  /\ LET repo == repos[idx]
         listing == CommitsInWindow(repo.fullName, periods[period].days)
         pageCommits == CommitsPage(listing, acc.page)
         a0 == IF acc.page = 1
               THEN [acc EXCEPT !.periodApiProcessedRepoFullNames =
                                   Append(@, repo.fullName)]
               ELSE acc
     IN
     \E outcome \in ListOutcomes, link \in BOOLEAN,
        failing \in SUBSET { i \in 1..Len(pageCommits) : NeedsDetail(pageCommits[i]) } :
       LET due == HasNextLink(listing, acc.page)
           \* a link that is not due is one failure of the host, which may
           \* then repeat it on the page past the end
           undue == IF link # due /\ ~PastTheEnd(listing, acc.page) THEN 1 ELSE 0
           n == Failed(outcome) + Cardinality(failing)
           details == Cardinality({ i \in 1..Len(pageCommits) : NeedsDetail(pageCommits[i]) })
           more == MorePages(outcome, link, pageCommits)
           after == IF outcome \in {"non2xx", "throw"}
                    THEN SkipRepo(AfterWindowIdx(repos, idx))
                    ELSE AfterWindowIdx(repos, idx)
       IN
       /\ outcome # "ok" => failing = {}
       /\ link # due => (outcome = "ok" /\ link)
       /\ faults + n + undue <= MaxFaults
       /\ faults' = faults + n + undue
       /\ obs' = [obs EXCEPT
                    !.netCalls = @ + 1 + (IF outcome = "ok" THEN details ELSE 0),
                    !.hostFaults = @ + n,
                    !.linked = IF outcome = "ok" /\ link
                               THEN @ \cup {<< period, repo.fullName, acc.page >>}
                               ELSE @,
                    !.requests =
                       Append(@, Request("commits", period, repo.fullName, acc.page, outcome))
                         \o (IF outcome = "ok"
                             THEN DetailRequests(period, repo.fullName, pageCommits, 1,
                                    { i \in 1..Len(pageCommits) : NeedsDetail(pageCommits[i]) },
                                    failing)
                             ELSE << >>)]
       /\ IF more
          THEN /\ acc' = [AddCommits(a0, pageCommits, 1, failing) EXCEPT !.page = @ + 1]
               /\ UNCHANGED << pc, idx >>
          ELSE /\ acc' = [AddCommits(a0, PageCommitsOf(outcome, pageCommits), 1, failing)
                            EXCEPT !.page = 1]
               /\ pc' = after.pc
               /\ idx' = after.idx
  /\ UNCHANGED << scan, jira, peer, teams, store, config, dbUp, tmpDirs, calls, teamId, repoArg, existingMetrics,
                  repos, period, err, currentMetricsReturn, result >>

\* new Date() during call n as an instant, in hours (noon UTC of NowDay(n)).
NowHour(n) == 24 * NowDay(n) + 12
\* The zone of the process: local time minus UTC, in hours, at instant t. The
\* clocks of the zone went forward one hour at 02:00 of day 91.
LocalOffset(t) == IF t >= 24 * 91 + 2 THEN 1 ELSE 0
\* lines 1000-1001: startDate.setDate(endDate.getDate() - days) for startDate
\* and endDate both at instant t. setDate moves the local calendar date and
\* keeps the local time of day; the result is the instant of that local time.
SetDateBack(t, days) ==
  LET wall == t + LocalOffset(t) - 24 * days
  IN CHOOSE u \in {wall - 1, wall} : u + LocalOffset(u) = wall

\* lines 999-1001 and 1075-1083: the record of one window. now is the instant
\* of endDate, in hours; the two dates are stored as instants (toISOString).
PeriodData(a, p, now, periodicMetricsTimestamp) ==
  [ linesAdded_period |-> a.linesAddedInPeriod,
    uniqueCommitters_period |-> Len(a.uniqueCommittersInPeriod),
    uniqueCommitterNames_period |-> a.uniqueCommittersInPeriod,
    periodStartDate |-> SetDateBack(now, periods[p].days),
    periodEndDate |-> now,
    periodLastRefreshed |-> periodicMetricsTimestamp,
    apiProcessedRepoFullNames |-> a.periodApiProcessedRepoFullNames ]

\* line 1084: the window's record is written; the next window begins, or the
\* loop is over.
SaveWindow ==
  /\ pc = "saveWindow"
  /\ \/ /\ DbSuccess
        /\ store' = saveGithubTeamMetric(store, teamId, periods[period].key,
                      PeriodData(acc, period, NowHour(calls), Timestamp(calls)))
        /\ obs' = Wrote(obs, periods[period].key)
        /\ IF period < Len(periods)
           THEN /\ period' = period + 1
                /\ acc' = WindowAcc
                /\ pc' = AfterWindowIdx(repos, 0).pc
                /\ idx' = AfterWindowIdx(repos, 0).idx
           ELSE /\ pc' = "finalRead"
                /\ UNCHANGED << period, acc, idx >>
        /\ UNCHANGED << err, currentMetricsReturn >>
     \/ /\ DbFailure
        /\ Throw("metrics write failed", "saveWindow", existingMetrics)
        /\ UNCHANGED << store, period, acc, idx >>
  /\ UNCHANGED << scan, jira, peer, teams, config, tmpDirs, calls, teamId, repoArg, existingMetrics, repos,
                  result >>

\* lines 1087-1089: the rows are read back and returned.
FinalRead ==
  /\ pc = "finalRead"
  /\ \/ /\ DbSuccess
        /\ result' = [returned |-> TRUE, success |-> TRUE, message |-> MsgRefreshed,
                      data |-> getGithubTeamMetricsFromDb(store, teamId)]
        /\ obs' = [obs EXCEPT !.path = "success"]
        /\ pc' = "done"
        /\ UNCHANGED << err, currentMetricsReturn >>
     \/ /\ DbFailure
        /\ Throw("metrics read failed", "finalRead", existingMetrics)
        /\ UNCHANGED result
  /\ UNCHANGED << scan, jira, peer, teams, store, config, tmpDirs, calls, teamId, repoArg, existingMetrics, repos,
                  idx, acc, period >>

\* ------------------------------------------------------- the specification
Next ==
  \/ SaveGithubConfig
  \/ DbRecover
  \/ Start
  \/ GetExisting
  \/ GetConfig
  \/ SaveConfigMissing
  \/ ClearNoRepos
  \/ SaveNoRepos
  \/ SnapshotRepo
  \/ CloneCreateDir
  \/ CloneRun
  \/ SaveSnapshot
  \/ WindowPage
  \/ SaveWindow
  \/ FinalRead
  \/ CatchRead
  \/ CatchSave

Spec == Init /\ [][Next]_vars

\* ------------------------------------------------------- scanGithubRepos
\* Root URLs a team is configured with, and what the code reads off them.
ScanRootUrls ==
  { "https://api.github.com/orgs/acme/repos", "https://github.com/acme",
    "https://github.com" }
ScanConfigs ==
  { GithubConfig(u, "tok", << >>) : u \in ScanRootUrls }
    \cup { GithubConfig("https://github.com/acme", "", << >>) }

\* line 724: rootUrl.includes("api.github.com/") && (includes("/repos") ||
\* includes("/user") || includes("/orgs"))
IsApiListingUrl(rootUrl) == rootUrl = "https://api.github.com/orgs/acme/repos"
\* line 719: new URL(rootUrl).pathname.split('/').filter(Boolean)
UrlPathParts(rootUrl) ==
  CASE rootUrl = "https://api.github.com/orgs/acme/repos" -> << "orgs", "acme", "repos" >>
    [] rootUrl = "https://github.com/acme" -> << "acme" >>
    [] OTHER -> << >>

\* The listing the host serves at each endpoint: the number of repositories
\* on each of its pages; the Link header names the next page while one remains.
ListingPages(endpoint) ==
  CASE endpoint = "given" -> << 2 >>
    [] endpoint = "orgs" -> << 2, 1 >>
    [] endpoint = "users" -> << 1 >>
    [] OTHER -> << 0 >>

\* How the host pages: as above, or answering every page request with one
\* repository and a Link header whose rel="next" is the URL just requested.
ServerModes == {"paged", "echo"}

ScanResult(success, message, count) ==
  [returned |-> TRUE, success |-> success, message |-> message, repos |-> count]

ScanSaveGithubConfig ==
  /\ SaveGithubConfigFrom(ScanConfigs)
  /\ UNCHANGED << scan, jira, peer >>

\* line 705: the call begins.
ScanStart ==
  /\ Idle
  /\ scan.pc \in {"idle", "done"}
  /\ \E t \in teams, mode \in ServerModes :
       scan' = [ pc |-> "getConfig", teamId |-> t, server |-> mode,
                 apiEndpointForRepoListing |-> "", nextPageUrl |-> 0, allRepos |-> 0,
                 probe |-> "none", requested |-> {}, result |-> NoResult ]
  /\ UNCHANGED << teams, store, config, dbUp, tmpDirs, faults, calls, pc, callVars, obs, jira, peer >>

\* lines 764-767: the catch block of scanGithubRepos.
ScanFailed(sc, message) ==
  [sc EXCEPT !.pc = "done", !.result = ScanResult(FALSE, message, 0)]

\* lines 707-746: the configuration is read and the listing endpoint chosen,
\* or the organization endpoint is to be probed first.
ScanGetConfig ==
  /\ scan.pc = "getConfig"
  /\ \/ /\ DbSuccess
        /\ LET cfg == getGithubConfigFromDb(config, scan.teamId) IN
           IF ConfigMissing(cfg)
           THEN scan' = ScanFailed(scan, "configuration not found")
           ELSE IF IsApiListingUrl(cfg.rootUrl)
           THEN scan' = [scan EXCEPT !.pc = "request",
                                     !.apiEndpointForRepoListing = "given",
                                     !.nextPageUrl = 1]
           ELSE IF Len(UrlPathParts(cfg.rootUrl)) > 0
           THEN scan' = [scan EXCEPT !.pc = "probe"]
           ELSE scan' = [scan EXCEPT !.pc = "request",
                                     !.apiEndpointForRepoListing = "user",
                                     !.nextPageUrl = 1]
     \/ /\ DbFailure
        /\ scan' = ScanFailed(scan, "config read failed")
  /\ UNCHANGED << teams, store, config, tmpDirs, calls, pc, callVars, obs, jira, peer >>

\* What the probe of /orgs/{name}/repos can do: a status, or fetch() throws.
ProbeOutcomes == {"200", "404", "403", "500", "throw"}

\* lines 730-742: the endpoint the probe selects. The throw of line 737 is
\* inside the try block of line 730, so the catch of line 739 receives it.
EndpointAfterProbe(outcome) ==
  IF outcome = "200" THEN "orgs"
  ELSE IF outcome \in {"404", "403"} THEN "users"
  ELSE "users"

ScanProbe ==
  /\ scan.pc = "probe"
  /\ \E outcome \in ProbeOutcomes :
       scan' = [scan EXCEPT !.pc = "request", !.probe = outcome,
                            !.apiEndpointForRepoListing = EndpointAfterProbe(outcome),
                            !.nextPageUrl = 1]
  /\ UNCHANGED << teams, store, config, dbUp, tmpDirs, faults, calls, pc, callVars, obs, jira, peer >>

\* lines 665-672: fetchGithubReposFromApi requests the page nextPageUrl.
ScanRequestPage ==
  /\ scan.pc = "request"
  /\ scan' = [scan EXCEPT !.pc = "response",
                          !.requested = @ \cup {scan.apiEndpointForRepoListing}]
  /\ UNCHANGED << teams, store, config, dbUp, tmpDirs, faults, calls, pc, callVars, obs, jira, peer >>

Min(a, b) == IF a < b THEN a ELSE b

\* lines 751-762: the listing is over.
ScanFinished(sc, count) ==
  [sc EXCEPT !.pc = "done", !.allRepos = count, !.nextPageUrl = 0,
             !.result = IF count = 0
                        THEN ScanResult(TRUE, "No repositories found", 0)
                        ELSE ScanResult(TRUE, "Found repositories", count)]

\* lines 674-700: the response to a page request. allRepos is its length,
\* counted up to MaxListed.
ScanPageResponse ==
  /\ scan.pc = "response"
  /\ \E response \in {"ok", "non2xx", "nonarray"} :
       IF response # "ok"
       THEN scan' = ScanFailed(scan, response)
       ELSE LET pages == ListingPages(scan.apiEndpointForRepoListing)
                data == IF scan.server = "echo" THEN 1 ELSE pages[scan.nextPageUrl]
                next == IF scan.server = "echo" THEN scan.nextPageUrl
                        ELSE IF scan.nextPageUrl < Len(pages) THEN scan.nextPageUrl + 1
                        ELSE 0
                count == Min(scan.allRepos + data, MaxListed)
            IN IF next # 0
               THEN scan' = [scan EXCEPT !.pc = "request", !.allRepos = count,
                                         !.nextPageUrl = next]
               ELSE scan' = ScanFinished(scan, count)
  /\ UNCHANGED << teams, store, config, dbUp, tmpDirs, faults, calls, pc, callVars, obs, jira, peer >>

ScanNext ==
  \/ ScanSaveGithubConfig
  \/ DbRecover
  \/ ScanStart
  \/ ScanGetConfig
  \/ ScanProbe
  \/ ScanRequestPage
  \/ ScanPageResponse

\* Every step of a running call is taken once its response has arrived, and
\* the host answers every request.
ScanSpec == Init /\ [][ScanNext]_vars /\ WF_vars(ScanNext)

\* =================================================================== claims
\* The rows of the running call's team, and what they were when it began.
Rows == store[teamId]
PreRows == obs.preStore
Returned == pc = "done" /\ result.returned
HasInfo(record) == "info" \in DOMAIN record
\* The fields of a record that are data, not annotation.
DataFields(record) == (DOMAIN record) \ {"info", "apiLastRefreshed"}
AllKeysInOrder ==
  << OVERALL >> \o [i \in 1..Len(periods) |-> periods[i].key]

\* C1 (as claimed): after any call has returned, on whichever path, the store
\* holds a record for each of the seven period keys of the team.
C1_AllKeysAfterAnyReturn ==
  Returned => PeriodKeys \subseteq DOMAIN Rows

\* C1 (amended): after a call has returned on the success path the store holds
\* the seven records, each with its metrics; after the missing-configuration
\* path it holds an informational overall_snapshot and the window records it
\* held before, no others; after the no-repositories path it holds the
\* informational overall_snapshot alone; after the exception path it holds an
\* informational overall_snapshot when the write of the catch block succeeded.
C1_KeysPerPath ==
  Returned =>
    /\ obs.path = "success" =>
         /\ DOMAIN Rows = PeriodKeys
         /\ "apiTotalBytes_current" \in DOMAIN Rows[OVERALL]
         /\ \A k \in WindowKeys : "linesAdded_period" \in DOMAIN Rows[k]
    /\ obs.path = "config_missing" =>
         /\ OVERALL \in DOMAIN Rows /\ HasInfo(Rows[OVERALL])
         /\ (DOMAIN Rows) \ {OVERALL} = (DOMAIN PreRows) \ {OVERALL}
    /\ obs.path = "no_repos" =>
         /\ DOMAIN Rows = {OVERALL} /\ HasInfo(Rows[OVERALL])
    /\ (obs.path = "exception" /\ obs.handlerSaved) =>
         /\ OVERALL \in DOMAIN Rows /\ HasInfo(Rows[OVERALL])

\* Witness of C1: a call returned on the no-repositories path for a team that
\* held all seven records, and only overall_snapshot is left.
C1_Witness ==
  /\ Returned /\ obs.path = "no_repos"
  /\ DOMAIN PreRows = PeriodKeys
  /\ DOMAIN Rows = {OVERALL}

\* C2: in the clone loop every directory created is removed before the loop
\* moves on: outside the step that runs the clone no directory of this call
\* exists, and at most one exists at any moment.
CallDirs == { d \in tmpDirs : d[2] = calls }
C2_TempDirsRemoved ==
  /\ Cardinality(CallDirs) <= 1
  /\ pc # "cloneRun" => CallDirs = {}

\* C3: the repository listing ends even when the host answers every page
\* request with a non-empty page and a next link to the URL just requested.
C3_ListingTerminates ==
  (scan.pc = "request" /\ scan.server = "echo") ~> (scan.pc = "done")

\* C4 (as claimed): a call in which a request to the host or a clone failed
\* returns success = false.
C4_AnyFailureFails ==
  (Returned /\ obs.hostFaults + obs.dbFaults > 0) => ~result.success

\* The steps of a refreshGithubMetrics call.
CallStep ==
  \/ GetExisting \/ GetConfig \/ SaveConfigMissing \/ ClearNoRepos \/ SaveNoRepos
  \/ SnapshotRepo \/ CloneCreateDir \/ CloneRun \/ SaveSnapshot \/ WindowPage
  \/ SaveWindow \/ FinalRead \/ CatchRead \/ CatchSave

\* C4 (amended): the call never throws: it always has a next step until it
\* returns, and it returns a result object. When a configuration read or a
\* store call threw (also inside the catch block) the result has
\* success = false, a message, and data with an overall_snapshot entry that
\* carries an info message; a failed request or clone alone does not make the
\* call fail.
C4_NeverThrows ==
  /\ ~Idle => ENABLED CallStep
  /\ pc = "done" => result.returned
  /\ (Returned /\ obs.dbFaults > 0) =>
        /\ ~result.success
        /\ result.message # << >>
        /\ OVERALL \in DOMAIN result.data
        /\ HasInfo(result.data[OVERALL])
  /\ (Returned /\ obs.dbFaults = 0 /\ Len(repos) > 0) => result.success

\* Witness of C4: the write of the catch block failed too, and the call
\* returned its failed result.
C4_Witness ==
  /\ Returned /\ obs.path = "exception" /\ ~obs.handlerSaved
  /\ ~result.success /\ HasInfo(result.data[OVERALL])

\* C5: when an exception reached the catch block, the stored overall_snapshot
\* afterwards holds every data field the stored one (a record of metrics) held
\* before the call, and an info message when the catch block could write it.
C5_SnapshotPreserved ==
  (/\ Returned /\ obs.thrown # << >>
   /\ OVERALL \in DOMAIN PreRows /\ DataFields(PreRows[OVERALL]) # {}) =>
    /\ OVERALL \in DOMAIN Rows
    /\ obs.handlerSaved => HasInfo(Rows[OVERALL])
    /\ \A f \in DataFields(PreRows[OVERALL]) :
         f \in DOMAIN Rows[OVERALL] /\ Rows[OVERALL][f] = PreRows[OVERALL][f]

\* The window records of the team are what they were when the call began.
WindowsUnchanged ==
  \A k \in WindowKeys :
    /\ k \in DOMAIN Rows <=> k \in DOMAIN PreRows
    /\ k \in DOMAIN Rows => Rows[k] = PreRows[k]
\* The configuration the running call reads (it cannot change during a call).
CallConfigMissing ==
  LET c == config[teamId] IN ~c.present \/ c.accessToken = "" \/ c.rootUrl = ""

\* C6: with the configuration absent or without root URL or token, the call
\* issues no request and no clone, leaves every window record as it was,
\* writes nothing but overall_snapshot, and returns success = false; returning
\* at line 838 it has written exactly one record, which carries an info message.
C6_ConfigMissingFrame ==
  (~Idle \/ Returned) /\ CallConfigMissing =>
    /\ obs.netCalls = 0 /\ obs.cloneCalls = 0 /\ CallDirs = {}
    /\ WindowsUnchanged
    /\ ~obs.cleared
    /\ SeqToSet(obs.written) \subseteq {OVERALL} /\ Len(obs.written) <= 1
    /\ Returned => ~result.success
    /\ (Returned /\ obs.dbFaults = 0) =>
          /\ obs.path = "config_missing"
          /\ obs.written = << OVERALL >>
          /\ HasInfo(Rows[OVERALL])
          /\ Rows[OVERALL].info.message = MsgConfigMissing

\* Witness of C6: the call returned at line 838 for a team that held window
\* records.
C6_Witness ==
  /\ Returned /\ obs.path = "config_missing"
  /\ WindowKeys \subseteq DOMAIN PreRows
  /\ WindowKeys \subseteq DOMAIN Rows

\* C7: with a complete configuration and no repository in the argument nor in
\* the saved selection, the call deletes the team's records, writes the
\* informational overall_snapshot alone, issues no request and returns
\* success = true; and only such a call deletes records.
CallNoRepos ==
  /\ ~CallConfigMissing
  /\ Len(repoArg) = 0
  /\ Len(config[teamId].selectedRepos) = 0
RECURSIVE FullNames(_)
FullNames(rs) ==
  IF rs = << >> THEN << >>
  ELSE (IF Head(rs).fullName # "" THEN << Head(rs).fullName >> ELSE << >>)
         \o FullNames(Tail(rs))

\* C8: failed requests and failed clones never reach the outer catch block and
\* never stop the loops: a call with repositories whose store calls all
\* succeeded returns on the success path, having written the snapshot and the
\* six windows in order, each over every repository that has a fullName.
C8_RepoFailuresContained ==
  (Returned /\ Len(repos) > 0 /\ obs.dbFaults = 0) =>
    /\ obs.path = "success"
    /\ obs.thrown = << >>
    /\ obs.written = AllKeysInOrder
    /\ \A k \in PeriodKeys :
         /\ k \in DOMAIN Rows
         /\ Rows[k].apiProcessedRepoFullNames = FullNames(repos)

\* Witness of C8: a request or a clone failed during the call and the call
\* returned on the success path.
C8_Witness ==
  /\ Returned /\ obs.hostFaults > 0 /\ obs.path = "success"
  /\ DOMAIN Rows = PeriodKeys

\* C9: a probe of the organization endpoint that ends with a status other
\* than 2xx, 404 and 403 makes scanGithubRepos fail, and the user endpoint is
\* not listed.
C9_ProbeHardFailure ==
  (scan.pc = "done" /\ scan.probe = "500") =>
    /\ ~scan.result.success
    /\ "users" \notin scan.requested

\* The bytes of one language in a histogram (0 when it is not in it).
BytesOf(languages, lang) == IF lang \in DOMAIN languages THEN languages[lang] ELSE 0
RECURSIVE SumBytesOver(_, _)
SumBytesOver(fullNames, lang) ==
  IF fullNames = << >> THEN 0
  ELSE BytesOf(UpstreamLanguages(Head(fullNames)), lang)
         + SumBytesOver(Tail(fullNames), lang)

\* The running call has written its snapshot and nothing has overwritten it.
SnapshotStands ==
  /\ Len(obs.written) > 0
  /\ obs.thrown = << >>
  /\ obs.path \in {"none", "success"}

\* C10: in the snapshot the success path writes, apiTotalBytes_current is the
\* sum of apiBytesByLanguage_current, and each language's bytes are the sum of
\* that language's bytes over the repositories whose language request
\* succeeded.
C10_BytesSum ==
  SnapshotStands =>
    LET snap == Rows[OVERALL] IN
    /\ snap.apiTotalBytes_current = SumFun(snap.apiBytesByLanguage_current)
    /\ \A lang \in {"Go", "TS"} :
         BytesOf(snap.apiBytesByLanguage_current, lang) = SumBytesOver(obs.langOk, lang)
    /\ DOMAIN snap.apiBytesByLanguage_current \subseteq {"Go", "TS"}

\* Witness of C10: the spec's example, {Go: 1000, TS: 500} and {Go: 500}.
C10_Witness ==
  /\ SnapshotStands
  /\ obs.langOk = << "o/r1", "o/r2" >>
  /\ Rows[OVERALL].apiTotalBytes_current = 2000
  /\ Rows[OVERALL].apiBytesByLanguage_current = [Go |-> 1500, TS |-> 500]

\* ------------------------------------------------- estimated lines (C11)
\* The largest byte count of one language the host reports below.
MaxBytes == 100

\* The byte histograms the snapshot loop can have accumulated: for each
\* language the host reported, from 1 to MaxBytes bytes.
ByteHistograms ==
  UNION { [langs -> 1..MaxBytes] : langs \in SUBSET {"Go", "TS"} }

\* A call for team A on repository R2 stands before line 925: the snapshot
\* loop has accumulated the histogram h and its total (lines 889-892), the
\* host listed no tag, and the clone of the repository failed.
EstimateInit ==
  /\ teams = {"A"}
  /\ store = [t \in Teams |-> EmptyObj]
  /\ config = [t \in Teams |->
                 IF t = "A" THEN GithubConfig("https://github.com/acme", "tok", << R2 >>)
                 ELSE NoConfig]
  /\ dbUp = TRUE
  /\ tmpDirs = {}
  /\ faults = 0
  /\ calls = 1
  /\ pc = "saveSnapshot"
  /\ teamId = "A"
  /\ repoArg = << >>
  /\ existingMetrics = EmptyObj
  /\ repos = << R2 >>
  /\ idx = 0
  /\ \E h \in ByteHistograms :
       acc = [SnapshotAcc EXCEPT
                !.overallApiTotalBytes = SumFun(h),
                !.overallApiBytesByLanguage = h,
                !.overallApiProcessedRepoFullNames = << R2.fullName >>]
  /\ period = 0
  /\ err = ""
  /\ currentMetricsReturn = EmptyObj
  /\ result = NoResult
  /\ obs = [NoObs EXCEPT
              !.netCalls = 2, !.cloneCalls = 1, !.hostFaults = 1,
              !.langOk = << R2.fullName >>,
              !.requests = << Request("languages", 0, R2.fullName, 0, "ok"),
                              Request("tags", 0, R2.fullName, 0, "non2xx"),
                              Request("clone", 0, R2.fullName, 0, "failed") >>]
  /\ scan = NoScan
  /\ jira = NoJira
  /\ peer = NoPeer

\* lines 925-990: the estimates are computed and the snapshot is written.
EstimateNext == SaveSnapshot
EstimateSpec == EstimateInit /\ [][EstimateNext]_vars

\* e is n / d rounded to the nearest integer, halves up.
IsRounded(e, n, d) == (2 * e - 1) * d <= 2 * n /\ 2 * n < (2 * e + 1) * d
Abs(x) == IF x < 0 THEN 0 - x ELSE x

\* C11: in the snapshot the success path writes, the estimated total is the
\* total bytes divided by 50 and rounded, each language's estimate is its
\* bytes divided by 50 and rounded, and the sum of the languages' estimates is
\* within half a line per language plus half a line of the estimated total.
C11_EstimatedLines ==
  SnapshotStands =>
    LET snap == Rows[OVERALL]
        bytes == snap.apiBytesByLanguage_current
        lines == snap.apiEstimatedLinesByLanguage_current
    IN
    /\ IsRounded(snap.apiEstimatedTotalLines_current, snap.apiTotalBytes_current, 50)
    /\ DOMAIN lines = DOMAIN bytes
    /\ \A lang \in DOMAIN bytes : IsRounded(lines[lang], bytes[lang], 50)
    /\ 2 * Abs(SumFun(lines) - snap.apiEstimatedTotalLines_current)
         <= Cardinality(DOMAIN bytes) + 1

\* Witness of C11: two languages of 25 bytes each are estimated at one line
\* each, and their total of 50 bytes at one line.
C11_Witness ==
  /\ SnapshotStands
  /\ Rows[OVERALL].apiBytesByLanguage_current = [Go |-> 25, TS |-> 25]
  /\ Rows[OVERALL].apiEstimatedLinesByLanguage_current = [Go |-> 1, TS |-> 1]
  /\ Rows[OVERALL].apiEstimatedTotalLines_current = 1

\* The totals of a snapshot record that C12 compares.
TotalsFields ==
  { "apiTotalBytes_current", "apiBytesByLanguage_current",
    "apiEstimatedTotalLines_current", "apiEstimatedLinesByLanguage_current",
    "clonedActualTotalLines", "clonedActualLinesByLanguage" }
\* The store held, when the call began, the snapshot of an earlier run over
\* the repositories this call has processed.
EarlierRunSameRepos ==
  /\ OVERALL \in DOMAIN PreRows
  /\ TotalsFields \cup {"apiProcessedRepoFullNames"} \subseteq DOMAIN PreRows[OVERALL]
  /\ PreRows[OVERALL].apiProcessedRepoFullNames = Rows[OVERALL].apiProcessedRepoFullNames

\* C12: a run that follows a run over the same repositories, with no request,
\* clone or store call failing in either, stores the same byte totals, byte
\* histogram, estimated lines, cloned line total and per-extension lines as
\* the earlier run did.
C12_RerunSameTotals ==
  (SnapshotStands /\ faults = 0 /\ EarlierRunSameRepos) =>
    \A f \in TotalsFields : Rows[OVERALL][f] = PreRows[OVERALL][f]

\* Witness of C12: the second run over o/r1 and o/r2 has returned, and both
\* runs stored 2000 bytes and 42 cloned lines.
C12_Witness ==
  /\ Returned /\ obs.path = "success" /\ calls = 2 /\ faults = 0
  /\ EarlierRunSameRepos
  /\ PreRows[OVERALL].apiLastRefreshed = Timestamp(1)
  /\ Rows[OVERALL].apiLastRefreshed = Timestamp(2)
  /\ Rows[OVERALL].apiTotalBytes_current = 2000
  /\ Rows[OVERALL].clonedActualTotalLines = 42

\* The window records the running call has written.
WindowsWritten == SeqToSet(obs.written) \cap WindowKeys
DaysOfKey(k) == periods[CHOOSE i \in 1..Len(periods) : periods[i].key = k].days

\* C13: in every window record the call writes, periodEndDate minus
\* periodStartDate is exactly the window's number of days (24 hours each).
C13_WindowLength ==
  \A k \in WindowsWritten :
    Rows[k].periodEndDate - Rows[k].periodStartDate = 24 * DaysOfKey(k)

\* ------------------------------------------- what the host returned (C14..)
\* The requests of window p (an index of periods) the call has issued.
RequestsOf(p) == SelectSeq(obs.requests, LAMBDA r : r[2] = p)
\* The commits the host returned in answer to the commit-listing request r.
CommitsReturned(r) ==
  IF r[1] = "commits" /\ r[5] = "ok"
  THEN CommitsPage(CommitsInWindow(r[3], periods[r[2]].days), r[4])
  ELSE << >>
\* The fetchCommitDetails calls for commit sha of the repository in window p.
DetailFetches(p, fullName, sha) ==
  { i \in 1..Len(obs.requests) :
      /\ obs.requests[i][1] = "commit" /\ obs.requests[i][2] = p
      /\ obs.requests[i][3] = fullName /\ obs.requests[i][4] = sha }
\* What the commit c of the repository is to contribute in window p: the
\* additions of the listing, else those of its detail fetch, else 0.
Contribution(p, fullName, c) ==
  IF c.stats # << >> THEN c.stats[1]
  ELSE IF \E i \in DetailFetches(p, fullName, c.sha) : obs.requests[i][5] = "ok"
       THEN UpstreamCommitDetail(c.sha).additions
       ELSE 0
PageContribution(r) ==
  LET cs == CommitsReturned(r)
  IN SumSeq([i \in 1..Len(cs) |-> Contribution(r[2], r[3], cs[i])])
ExpectedLinesAdded(p) ==
  LET rs == RequestsOf(p) IN SumSeq([i \in 1..Len(rs) |-> PageContribution(rs[i])])
PeriodOf(k) == CHOOSE i \in 1..Len(periods) : periods[i].key = k

\* C14: in every window record written, linesAdded_period is the sum over the
\* commits the listings returned of the listing's additions, else the
\* additions of the commit's detail fetch, else 0; a commit without stats has
\* exactly one detail fetch and a commit with stats none.
C14_LinesAdded ==
  \A k \in WindowsWritten :
    LET p == PeriodOf(k)
        rs == RequestsOf(p)
    IN
    /\ Rows[k].linesAdded_period = ExpectedLinesAdded(p)
    /\ \A j \in 1..Len(rs) :
         LET cs == CommitsReturned(rs[j]) IN
         \A i \in 1..Len(cs) :
           Cardinality(DetailFetches(p, rs[j][3], cs[i].sha))
             = IF cs[i].stats = << >> THEN 1 ELSE 0

\* Witness of C14: the 180-day window saw the three commits of o/r1, with
\* additions 10 in the listing, 5 and 0 from the detail fetches, while the
\* listing of o/r2 failed: 15 lines.
C14_Witness ==
  /\ "180days" \in WindowsWritten
  /\ Rows["180days"].linesAdded_period = 15
  /\ Request("commits", 5, "o/r1", 1, "ok") \in SeqToSet(obs.requests)
  /\ Request("commits", 5, "o/r1", 2, "ok") \in SeqToSet(obs.requests)
  /\ Request("commit", 5, "o/r1", "c2", "ok") \in SeqToSet(obs.requests)
  /\ Request("commit", 5, "o/r1", "c3", "ok") \in SeqToSet(obs.requests)
  /\ Request("commits", 5, "o/r2", 1, "failed") \in SeqToSet(obs.requests)

\* ------------------------------------------------ calls of two teams (C15)
\* Two teams exist: team A with a complete configuration and no saved
\* selection, team B with a configuration that lacks the access token. No
\* call has been made yet.
TeamsInit ==
  /\ teams = Teams
  /\ store = [t \in Teams |-> EmptyObj]
  /\ config = [t \in Teams |->
                 GithubConfig("https://github.com/acme",
                              IF t = "B" THEN "" ELSE "tok", << >>)]
  /\ dbUp = TRUE
  /\ tmpDirs = {}
  /\ faults = 0
  /\ calls = 0
  /\ pc = "idle"
  /\ teamId = "A"
  /\ repoArg = << >>
  /\ existingMetrics = EmptyObj
  /\ repos = << >>
  /\ idx = 0
  /\ acc = EmptyObj
  /\ period = 0
  /\ err = ""
  /\ currentMetricsReturn = EmptyObj
  /\ result = NoResult
  /\ obs = NoObs
  /\ scan = NoScan
  /\ jira = NoJira
  /\ peer = NoPeer

\* While the call above runs for teamId, another refreshGithubMetrics call
\* runs for team u and takes one of its store steps: it deletes the rows of
\* its team (line 855), or writes one record of its team (lines 858, 990,
\* 1084, 1106).
OtherTeamClear(u) ==
  /\ ~Idle /\ dbUp
  /\ u \in teams \ {teamId}
  /\ store[u] # EmptyObj
  /\ store' = clearGithubTeamMetrics(store, u)
  /\ UNCHANGED << teams, config, dbUp, tmpDirs, faults, calls, pc, callVars, obs, scan, jira, peer >>
OtherTeamSave(u) ==
  /\ ~Idle /\ dbUp
  /\ u \in teams \ {teamId}
  /\ \E k \in {OVERALL, "7days"} :
       /\ k \notin DOMAIN store[u]
       /\ store' = saveGithubTeamMetric(store, u, k,
                     [info |-> [message |-> MsgNoRepos], apiLastRefreshed |-> Timestamp(calls)])
  /\ UNCHANGED << teams, config, dbUp, tmpDirs, faults, calls, pc, callVars, obs, scan, jira, peer >>

TeamsNext ==
  \/ Start
  \/ CallStep
  \/ \E u \in Teams : OtherTeamClear(u)
  \/ \E u \in Teams : OtherTeamSave(u)
TeamsSpec == TeamsInit /\ [][TeamsNext]_vars

\* C15: with calls for different teams interleaved, no step of the call for
\* teamId changes a record of another team, and no step of the call for
\* another team changes a record of a team other than its own.
C15_OtherTeamsUntouched ==
  [][ /\ CallStep => \A u \in Teams \ {teamId} : store'[u] = store[u]
      /\ \A u \in Teams :
           (OtherTeamClear(u) \/ OtherTeamSave(u)) =>
             \A t \in Teams \ {u} : store'[t] = store[t] ]_vars

\* Witness of C15: the call for team A has deleted the seven rows of A and
\* written its informational record, while the call for team B wrote a record
\* of B that is still there.
C15_Witness ==
  /\ Returned /\ teamId = "A" /\ obs.path = "no_repos" /\ obs.cleared
  /\ DOMAIN PreRows = PeriodKeys
  /\ OVERALL \in DOMAIN store["B"]
  /\ store["B"][OVERALL].apiLastRefreshed = Timestamp(calls)

\* --------------------------------------------------------------- retries
\* What a request asked for: its kind, its stage (0 for the snapshot and the
\* clone stage, else the window), its repository and its page or commit.
Identity(r) == << r[1], r[2], r[3], r[4] >>

\* C16: within one call no request or clone is issued twice, whether the
\* first one failed or not: the languages request, the tags request and the
\* clone of a repository, and page 1 of its commits in a window, are each
\* issued at most once.
C16_NoRetry ==
  Cardinality({ Identity(obs.requests[i]) : i \in DOMAIN obs.requests })
    = Len(obs.requests)

\* Witness of C16: a call over three repositories has returned with all its
\* records written after one of its requests failed.
C16_Witness ==
  /\ Returned /\ obs.path = "success" /\ Len(repos) = 3
  /\ \E i \in DOMAIN obs.requests : obs.requests[i][5] = "failed"

\* ------------------------------------------------------ wholesale writes
\* The data of a record, without its annotation.
DataOf(record) == [f \in DataFields(record) |-> record[f]]
SnapshotFields ==
  { "apiTotalBytes_current", "apiBytesByLanguage_current",
    "apiEstimatedTotalLines_current", "apiEstimatedLinesByLanguage_current",
    "apiProcessedRepoFullNames", "apiLastRefreshed", "clonedActualTotalLines",
    "clonedActualLinesByLanguage", "clonedProcessedRepoFullNames",
    "clonedLoCLastRefreshed", "latestTags" }
WindowFields ==
  { "linesAdded_period", "uniqueCommitters_period", "uniqueCommitterNames_period",
    "periodStartDate", "periodEndDate", "periodLastRefreshed",
    "apiProcessedRepoFullNames" }
\* A metrics record of the running call: no field but those the call computes,
\* stamped by this call, for the repositories of this call.
OwnSnapshot(record) ==
  /\ DOMAIN record \subseteq SnapshotFields
  /\ SnapshotFields \ {"clonedLoCLastRefreshed"} \subseteq DOMAIN record
  /\ record.apiLastRefreshed = Timestamp(calls)
  /\ record.apiProcessedRepoFullNames = FullNames(repos)
  /\ "clonedLoCLastRefreshed" \in DOMAIN record =>
       record.clonedLoCLastRefreshed = Timestamp(calls)
OwnWindow(record) ==
  /\ DOMAIN record = WindowFields
  /\ record.periodLastRefreshed = Timestamp(calls)
  /\ SeqToSet(record.apiProcessedRepoFullNames) \subseteq SeqToSet(FullNames(repos))

\* C17 (as claimed): a record the call has written holds nothing but what the
\* call computed: when it carries the informational message of a call that
\* computed no metrics, it carries no metrics field of an earlier record.
C17_WholesaleReplace ==
  \A k \in SeqToSet(obs.written) \cap DOMAIN Rows :
    HasInfo(Rows[k]) => DataFields(Rows[k]) = {}

\* C17 (amended): the writes of the success path and of the no-repositories
\* path replace the stored record wholesale; the writes of the
\* missing-configuration path and of the catch block keep the data of an
\* earlier overall_snapshot (the one stored when the call began or, when the
\* team had none then, the one this call wrote; none when both the first read
\* and the read of the catch block threw) and replace only its info and
\* apiLastRefreshed.
C17_ReplacePerPath ==
  /\ SnapshotStands =>
       /\ OwnSnapshot(Rows[OVERALL])
       /\ \A k \in WindowsWritten : OwnWindow(Rows[k])
  /\ obs.path = "no_repos" =>
       Rows = [k \in {OVERALL} |->
                 [info |-> [message |-> MsgNoRepos],
                  apiLastRefreshed |-> Timestamp(calls)]]
  /\ obs.path = "config_missing" =>
       /\ Rows[OVERALL].info = [message |-> MsgConfigMissing]
       /\ Rows[OVERALL].apiLastRefreshed = Timestamp(calls)
       /\ DataOf(Rows[OVERALL]) = DataOf(GetOrEmpty(PreRows, OVERALL))
  /\ (obs.path = "exception" /\ obs.handlerSaved) =>
       /\ HasInfo(Rows[OVERALL])
       /\ Rows[OVERALL].apiLastRefreshed = Timestamp(calls)
       /\ \/ DataOf(Rows[OVERALL]) = DataOf(GetOrEmpty(PreRows, OVERALL))
          \/ /\ PreRows = EmptyObj
             /\ OVERALL \in SeqToSet(SubSeq(obs.written, 1, Len(obs.written) - 1))
             /\ OwnSnapshot([f \in DOMAIN Rows[OVERALL] \ {"info"} |-> Rows[OVERALL][f]])
          \/ /\ obs.thrown = << "getExisting" >> /\ obs.dbFaults >= 2
             /\ DataFields(Rows[OVERALL]) = {}

\* Witness of C17: a team whose snapshot holds the metrics of an earlier call
\* has lost its configuration; the call has written the informational record,
\* which still carries those metrics.
C17_Witness ==
  /\ Returned /\ obs.path = "config_missing"
  /\ OVERALL \in DOMAIN PreRows
  /\ DataFields(PreRows[OVERALL]) # {}
  /\ DataOf(Rows[OVERALL]) = DataOf(PreRows[OVERALL])
  /\ Rows[OVERALL].apiLastRefreshed = Timestamp(calls)

\* ------------------------------------------------------ resolution order
\* The running call has read a complete configuration and has resolved its
\* repository set (lines 849-868 are behind it).
Resolved ==
  /\ pc \notin {"idle", "getExisting", "getConfig"}
  /\ ~CallConfigMissing
  /\ SeqToSet(obs.thrown) \cap {"getExisting", "getConfig"} = {}

\* C18: the repository set is the explicit argument when that is not empty,
\* whatever the saved selection is; else the saved selection when that is
\* not empty; else there is none, and the call runs no collection stage
\* (no request, no clone, no window record) and ends in the no-repositories
\* state.
C18_ResolutionOrder ==
  Resolved =>
    LET saved == config[teamId].selectedRepos IN
    /\ Len(repoArg) > 0 => repos = repoArg
    /\ (Len(repoArg) = 0 /\ Len(saved) > 0) => repos = saved
    /\ (Len(repoArg) = 0 /\ Len(saved) = 0) =>
         /\ repos = << >>
         /\ obs.requests = << >> /\ obs.netCalls = 0 /\ obs.cloneCalls = 0
         /\ SeqToSet(obs.written) \subseteq {OVERALL}
         /\ (Returned /\ obs.thrown = << >>) => obs.path = "no_repos"
    /\ repos # << >> => (~obs.cleared /\ obs.path # "no_repos")

\* Witness of C18: a call given three repositories for a team whose saved
\* selection is another list has returned, its snapshot covering the
\* repositories of the argument.
C18_Witness ==
  /\ Returned /\ obs.path = "success"
  /\ repoArg = << R1, R3, R2 >>
  /\ config[teamId].selectedRepos = << R2 >>
  /\ Rows[OVERALL].apiProcessedRepoFullNames = << "o/r1", "o/r2" >>

\* ---------------------------------------------------- committer identity
\* The identities of a commit: the first non-empty of the API author login,
\* the API committer login, the raw author name and the raw committer name;
\* none when all four are empty.
FirstNonEmpty(values) ==
  LET filled == SelectSeq(values, LAMBDA v : v # "")
  IN IF filled = << >> THEN {} ELSE { filled[1] }
IdentitiesOf(c) ==
  FirstNonEmpty(<< c.authorLogin, c.committerLogin, c.authorName, c.committerName >>)
\* The identities of the commits the host returned in window p.
CommittersSeen(p) ==
  LET rs == RequestsOf(p) IN
  UNION { UNION { IdentitiesOf(CommitsReturned(rs[j])[i]) :
                    i \in 1..Len(CommitsReturned(rs[j])) } : j \in 1..Len(rs) }

\* C19: in every window record written, uniqueCommitterNames_period holds
\* exactly the identities of the commits the listings returned (a commit with
\* none of the four names adds none), each once, and uniqueCommitters_period
\* is their number.
C19_CommitterIdentity ==
  \A k \in WindowsWritten :
    LET names == Rows[k].uniqueCommitterNames_period IN
    /\ SeqToSet(names) = CommittersSeen(PeriodOf(k))
    /\ Len(names) = Cardinality(SeqToSet(names))
    /\ Rows[k].uniqueCommitters_period = Len(names)

\* ------------------------------------------------- a body that is no array
\* The commit-listing requests of the call answered by a 2xx body that is no
\* array.
NonArrayRequests ==
  { i \in DOMAIN obs.requests :
      obs.requests[i][1] = "commits" /\ obs.requests[i][5] = "nonarray" }
\* This step receives such an answer.
NonArrayStep ==
  /\ pc = "windowPage"
  /\ Len(obs'.requests) = Len(obs.requests) + 1
  /\ obs'.requests[Len(obs'.requests)][5] = "nonarray"

\* C20: a 2xx commit listing whose body is no array adds no lines and no
\* committer to the window, ends the paging of its repository, throws
\* nothing, and lets the loop go on with the next repository or with the
\* writing of the window; a call that got such answers and whose store calls
\* all succeeded asks every repository for its commits in that window, writes
\* the window's record and returns success.
C20_NonArrayIsEmpty ==
  /\ [][ NonArrayStep =>
           /\ acc'.linesAddedInPeriod = acc.linesAddedInPeriod
           /\ acc'.uniqueCommittersInPeriod = acc.uniqueCommittersInPeriod
           /\ acc'.page = 1
           /\ pc' \in {"windowPage", "saveWindow"}
           /\ pc' = "windowPage" => idx' > idx
           /\ pc' = "saveWindow" => \A i \in (idx + 1)..Len(repos) : repos[i].fullName = ""
           /\ period' = period
           /\ obs'.thrown = obs.thrown /\ err' = err /\ store' = store ]_vars
  /\ [](( Returned /\ obs.dbFaults = 0 /\ NonArrayRequests # {} ) =>
          /\ obs.path = "success" /\ result.success
          /\ \A i \in NonArrayRequests :
               LET p == obs.requests[i][2] IN
               /\ periods[p].key \in WindowsWritten
               /\ \A n \in SeqToSet(FullNames(repos)) :
                    \E j \in DOMAIN obs.requests :
                      Identity(obs.requests[j]) = << "commits", p, n, 1 >>)

\* Witness of C20: in the 7-day window the listing of o/r1 was answered by a
\* body that is no array and the listing of o/r2 by its commit; the window's
\* record holds the 4 lines and the committer of o/r2, and the call has
\* returned with all its records written.
C20_Witness ==
  /\ Returned /\ obs.path = "success"
  /\ Request("commits", 1, "o/r1", 1, "nonarray") \in SeqToSet(obs.requests)
  /\ Request("commits", 1, "o/r2", 1, "ok") \in SeqToSet(obs.requests)
  /\ Rows["7days"].linesAdded_period = 4
  /\ Rows["7days"].uniqueCommitterNames_period = << "bob" >>
  /\ DOMAIN Rows = PeriodKeys

\* ------------------------------------------------------- latest tags (C21)
\* The lists of one to three different repositories among R4, R5 and R6.
TagRepoLists ==
  { l \in UNION { [1..n -> {R4, R5, R6}] : n \in 1..3 } :
      \A i \in DOMAIN l : \A j \in DOMAIN l : l[i] = l[j] => i = j }

\* A call for team A, given one of these lists, has read the configuration
\* and stands at the head of the snapshot loop (line 879).
TagsInit ==
  /\ teams = {"A"}
  /\ store = [t \in Teams |-> EmptyObj]
  /\ config = [t \in Teams |->
                 IF t = "A" THEN GithubConfig("https://github.com/acme", "tok", << >>)
                 ELSE NoConfig]
  /\ dbUp = TRUE
  /\ tmpDirs = {}
  /\ faults = 0
  /\ calls = 1
  /\ pc = "snapshotRepo"
  /\ teamId = "A"
  /\ repoArg \in TagRepoLists
  /\ existingMetrics = EmptyObj
  /\ repos = repoArg
  /\ idx = 1
  /\ acc = SnapshotAcc
  /\ period = 0
  /\ err = ""
  /\ currentMetricsReturn = EmptyObj
  /\ result = NoResult
  /\ obs = NoObs
  /\ scan = NoScan
  /\ jira = NoJira
  /\ peer = NoPeer
\* The snapshot loop, the clone loop and the write of the snapshot.
TagsNext ==
  \/ SnapshotRepo
  \/ CloneCreateDir
  \/ CloneRun
  \/ SaveSnapshot
TagsSpec == TagsInit /\ [][TagsNext]_vars

\* The tag entry the call is to collect for the commit request r of a tag:
\* "<repoName>/<tagName>", dated by the commit, or by now when r failed.
TagEntryOf(r) ==
  LET repoData == CHOOSE x \in SeqToSet(repos) : x.fullName = r[3]
      tag == CHOOSE t \in SeqToSet(UpstreamTags(r[3])) : t.sha = r[4]
  IN [name |-> << repoData.name, "/", tag.name >>,
      date |-> IF r[5] = "ok" THEN UpstreamCommitDetail(r[4]).date ELSE NowDay(calls)]
TagRequests == { r \in SeqToSet(obs.requests) : r[1] = "commit" /\ r[2] = 0 }
CollectedTags == { TagEntryOf(r) : r \in TagRequests }
MinOf(a, b) == IF a < b THEN a ELSE b

\* C21: the latestTags of the snapshot written are in order of date, newest
\* first, are at most 10, and are the 10 newest of the entries collected (all
\* of them when fewer): every entry left out is no newer than any entry kept;
\* each entry is named "<repoName>/<tagName>"; and no repository has more than
\* 5 tags looked up.
C21_LatestTags ==
  /\ \A n \in { r[3] : r \in TagRequests } :
       Cardinality({ r \in TagRequests : r[3] = n }) <= 5
  /\ (OVERALL \in SeqToSet(obs.written) /\ obs.thrown = << >>) =>
       LET latestTags == Rows[OVERALL].latestTags
           kept == SeqToSet(latestTags)
       IN
       /\ \A i \in 1..(Len(latestTags) - 1) : latestTags[i].date >= latestTags[i + 1].date
       /\ Len(latestTags) = MinOf(10, Cardinality(CollectedTags))
       /\ Cardinality(kept) = Len(latestTags)
       /\ kept \subseteq CollectedTags
       /\ \A dropped \in CollectedTags \ kept : \A held \in kept :
            dropped.date <= held.date

\* Witness of C21: the three repositories returned 5, 5 and 4 tags, one tag's
\* commit could not be fetched, and the snapshot holds 10 of the 14 entries.
C21_Witness ==
  /\ OVERALL \in SeqToSet(obs.written) /\ obs.thrown = << >>
  /\ Cardinality(CollectedTags) = 14
  /\ Len(Rows[OVERALL].latestTags) = 10
  /\ \E r \in TagRequests : r[5] = "failed"
  /\ Rows[OVERALL].latestTags[1].date = NowDay(calls)

\* ------------------------------------------------- one write per window
\* How often the call has written period key k.
TimesWritten(k) == Cardinality({ i \in DOMAIN obs.written : obs.written[i] = k })
\* The repositories whose commits the call has asked for in window p.
AskedInWindow(p) ==
  { r[3] : r \in { q \in SeqToSet(obs.requests) : q[1] = "commits" /\ q[2] = p /\ q[4] = 1 } }

\* C22: no window key is written twice; a window that has been written has
\* had every repository of the set (with a fullName) asked for its commits
\* before, and its record lists them all; and a call that returns on the
\* success path has written the snapshot and each of the six windows once, in
\* order.
C22_WindowWrittenOnce ==
  /\ \A k \in WindowKeys : TimesWritten(k) <= 1
  /\ \A k \in WindowsWritten :
       /\ AskedInWindow(PeriodOf(k)) = SeqToSet(FullNames(repos))
       /\ obs.thrown = << >> => Rows[k].apiProcessedRepoFullNames = FullNames(repos)
  /\ (Returned /\ obs.path = "success") => obs.written = AllKeysInOrder

\* Witness of C22: a call over o/r1 and o/r2 has returned on the success path;
\* its 7days record counts the commits of both, 10 and 4 lines.
C22_Witness ==
  /\ Returned /\ obs.path = "success"
  /\ obs.written = AllKeysInOrder
  /\ Rows["7days"].apiProcessedRepoFullNames = << "o/r1", "o/r2" >>
  /\ Rows["7days"].linesAdded_period = 14

\* ------------------------------------------------ skipped clones (C23)
\* The clones of the call in which every read succeeded.
CleanClones == SelectSeq(obs.clones, LAMBDA c : c.unreadable = {})
NamesOf(clones) == [i \in 1..Len(clones) |-> clones[i].fullName]
LinesOf(clones) == SumSeq([i \in 1..Len(clones) |-> clones[i].locData.totalLines])

\* C23: in the snapshot the call writes, clonedProcessedRepoFullNames lists
\* the repositories whose clone succeeded and whose files and directories
\* could all be read, and no other; clonedActualTotalLines is the sum of
\* their lines: a repository whose clone failed or timed out, or in which a
\* read failed, adds nothing.
C23_FailedCloneSkipped ==
  SnapshotStands =>
    /\ Rows[OVERALL].clonedProcessedRepoFullNames = NamesOf(CleanClones)
    /\ Rows[OVERALL].clonedActualTotalLines = LinesOf(CleanClones)

\* -------------------------------------------------- the walk alone (C24)
\* A call for team A on repository o/r7 has finished the snapshot loop (the
\* host reported no language and no tag) and stands at the head of the clone
\* loop (line 936).
WalkInit ==
  /\ teams = {"A"}
  /\ store = [t \in Teams |-> EmptyObj]
  /\ config = [t \in Teams |->
                 IF t = "A" THEN GithubConfig("https://github.com/acme", "tok", << R7 >>)
                 ELSE NoConfig]
  /\ dbUp = TRUE
  /\ tmpDirs = {}
  /\ faults = 0
  /\ calls = 1
  /\ pc = "cloneCreateDir"
  /\ teamId = "A"
  /\ repoArg = << >>
  /\ existingMetrics = EmptyObj
  /\ repos = << R7 >>
  /\ idx = 1
  /\ acc = [SnapshotAcc EXCEPT !.overallApiProcessedRepoFullNames = << R7.fullName >>]
  /\ period = 0
  /\ err = ""
  /\ currentMetricsReturn = EmptyObj
  /\ result = NoResult
  /\ obs = [NoObs EXCEPT
              !.netCalls = 2,
              !.langOk = << R7.fullName >>,
              !.requests = << Request("languages", 0, R7.fullName, 0, "ok"),
                              Request("tags", 0, R7.fullName, 0, "ok") >>]
  /\ scan = NoScan
  /\ jira = NoJira
  /\ peer = NoPeer
WalkNext ==
  \/ CloneCreateDir
  \/ CloneRun
WalkSpec == WalkInit /\ [][WalkNext]_vars

\* An entry the walk is to pass over: its name begins with a dot or is a name
\* of the ignore list (in whatever case it is written).
ListedOrDotted(name) ==
  \/ StartsWithDot(name)
  \/ name \in IGNORED_DIRS_FOR_LOC_COUNT
  \/ toLowerCase(name) \in IGNORED_DIRS_FOR_LOC_COUNT
\* The files to count: those with a code extension, outside every entry to
\* pass over.
RECURSIVE FilesToCount(_, _)
FilesToCount(entries, i) ==
  IF i > Len(entries) THEN << >>
  ELSE (IF ListedOrDotted(entries[i].name) THEN << >>
        ELSE IF entries[i].kind = "dir" THEN FilesToCount(entries[i].entries, 1)
        ELSE IF entries[i].kind = "file"
                  /\ extname(toLowerCase(entries[i].name)) \in CODE_EXTENSIONS_FOR_LOC_COUNT
             THEN << entries[i] >>
        ELSE << >>)
       \o FilesToCount(entries, i + 1)
NonBlankLines(file) == Len(SelectSeq(file.lines, LAMBDA line : Trim(line) # ""))
LinesToCount(tree, ext) ==
  LET files == SelectSeq(FilesToCount(tree, 1),
                         LAMBDA f : extname(toLowerCase(f.name)) = ext)
  IN SumSeq([i \in 1..Len(files) |-> NonBlankLines(files[i])])

\* C24: for a clone all of whose reads succeed, calculateLocInDirectory
\* counts, per extension of the code list, the non-blank lines of the files
\* that lie outside every entry whose name begins with a dot or is a name of
\* the ignore list (Pods and Carthage among them); it reports no other
\* extension, and totalLines is the sum of linesByLanguage.
C24_WalkCounts ==
  \A i \in DOMAIN obs.clones :
    LET c == obs.clones[i]
        by == c.locData.linesByLanguage
    IN c.unreadable = {} =>
         /\ DOMAIN by \subseteq CODE_EXTENSIONS_FOR_LOC_COUNT
         /\ \A ext \in CODE_EXTENSIONS_FOR_LOC_COUNT :
              (IF ext \in DOMAIN by THEN by[ext] ELSE 0) = LinesToCount(c.tree, ext)
         /\ c.locData.totalLines = SumFun(by)

\* ============================================ _fetchAndSaveJiraMetrics
\* Number up to which startAt and allIssues.length are counted; MaxIssues
\* stands for "MaxIssues or more".
MaxIssues == 3
\* Number of issues one page of the search may hold.
MaxPageIssues == 2

\* The bodies a 2xx response of /rest/api/2/search can carry: an object with
\* or without an issues array (given by its length) and with or without a
\* total. Totals stay below MaxIssues, so that every comparison with a
\* counted number is exact.
PageDatas ==
  { Spread(i, t) :
      i \in {EmptyObj} \cup {[issues |-> n] : n \in 0..MaxPageIssues},
      t \in {EmptyObj} \cup {[total |-> n] : n \in 0..(MaxIssues - 1)} }

\* pageData.total > 0 && pageData.total !== allIssues.length (line 1270); an
\* absent total is undefined, and undefined > 0 is false.
TotalDisagrees(pageData, allIssues) ==
  /\ "total" \in DOMAIN pageData
  /\ pageData.total > 0
  /\ pageData.total # allIssues

\* startAt >= pageData.total || pageData.issues.length === 0 (line 1286);
\* startAt >= undefined is false.
IsLastPage(startAt, pageData) ==
  \/ "total" \in DOMAIN pageData /\ startAt >= pageData.total
  \/ pageData.issues = 0

\* The row saveJiraTeamMetricsToDb writes (lines 422-439), by its count and
\* its note.
JiraRow(totalIssues, info) ==
  [present |-> TRUE, totalIssues |-> totalIssues, info |-> info]

\* lines 1199-1233: the call begins; with an incomplete configuration it goes
\* to write a note and throw.
JiraStart ==
  /\ jira.pc \in {"idle", "done"}
  /\ \E complete \in BOOLEAN :
       jira' = [ pc |-> IF complete THEN "fetch" ELSE "saveInfo",
                 startAt |-> 0, isLastPage |-> FALSE, allIssues |-> 0,
                 pages |-> "none", pageData |-> EmptyObj,
                 pending |-> IF complete THEN NoJiraRow
                             ELSE JiraRow(0, "configuration incomplete"),
                 outcome |-> "running", saved |-> jira.saved ]
  /\ UNCHANGED << teams, store, config, dbUp, tmpDirs, faults, calls, pc, callVars,
                  obs, scan, peer >>

\* lines 1235-1264: while (!isLastPage), one request. fetch rejects (the
\* inner catch rethrows), or the answer is not 2xx, or it is.
JiraFetch ==
  /\ jira.pc = "fetch"
  /\ ~jira.isLastPage
  /\ \E response \in {"rejected", "non2xx", "ok"} :
       jira' = CASE response = "rejected" ->
                      [jira EXCEPT !.pc = "done", !.outcome = "threw"]
                 [] response = "non2xx" ->
                      [jira EXCEPT !.pc = "saveInfo",
                                   !.pending = JiraRow(0, "Jira API Error")]
                 [] OTHER -> [jira EXCEPT !.pc = "json"]
  /\ UNCHANGED << teams, store, config, dbUp, tmpDirs, faults, calls, pc, callVars,
                  obs, scan, peer >>

\* lines 1266-1292: the body of the response is read and the loop decides.
JiraPage ==
  /\ jira.pc = "json"
  /\ \/ jira' = [jira EXCEPT !.pc = "done", !.outcome = "threw"]
     \/ \E pageData \in PageDatas :
          IF "issues" \notin DOMAIN pageData
          THEN IF TotalDisagrees(pageData, jira.allIssues)
               THEN jira' = [jira EXCEPT !.pc = "saveInfo", !.pageData = pageData,
                                         !.pages = "malformed",
                                         !.pending = JiraRow(jira.allIssues, "malformed")]
               ELSE jira' = [jira EXCEPT !.pc = "save", !.pageData = pageData,
                                         !.pages = "noArray",
                                         !.isLastPage = TRUE]
          ELSE LET startAt == Min(jira.startAt + pageData.issues, MaxIssues)
                   last == IsLastPage(startAt, pageData)
               IN jira' = [jira EXCEPT !.pc = IF last THEN "save" ELSE "fetch",
                                       !.pageData = pageData,
                                       !.pages = "array",
                                       !.allIssues = Min(@ + pageData.issues, MaxIssues),
                                       !.startAt = startAt,
                                       !.isLastPage = last]
  /\ UNCHANGED << teams, store, config, dbUp, tmpDirs, faults, calls, pc, callVars,
                  obs, scan, peer >>

\* lines 1208-1213, 1258-1263, 1272-1277: the note is written (or the write
\* throws) and the call throws.
JiraSaveInfo ==
  /\ jira.pc = "saveInfo"
  /\ \E written \in BOOLEAN :
       jira' = [jira EXCEPT !.pc = "done", !.outcome = "threw",
                            !.saved = IF written THEN jira.pending ELSE @]
  /\ UNCHANGED << teams, store, config, dbUp, tmpDirs, faults, calls, pc, callVars,
                  obs, scan, peer >>

\* lines 1294-1338: the issues are aggregated and the row is written.
JiraSave ==
  /\ jira.pc = "save"
  /\ \E written \in BOOLEAN :
       jira' = IF written
               THEN [jira EXCEPT !.pc = "done", !.outcome = "returned",
                                 !.saved = JiraRow(jira.allIssues, "none")]
               ELSE [jira EXCEPT !.pc = "done", !.outcome = "threw"]
  /\ UNCHANGED << teams, store, config, dbUp, tmpDirs, faults, calls, pc, callVars,
                  obs, scan, peer >>

JiraNext ==
  \/ JiraStart
  \/ JiraFetch
  \/ JiraPage
  \/ JiraSaveInfo
  \/ JiraSave

\* The host answers every request and every step of a running call is taken.
JiraSpec == Init /\ [][JiraNext]_vars /\ WF_vars(JiraNext)

JiraInLoop == jira.pc \in {"fetch", "json"}

\* C25: the pagination loop of _fetchAndSaveJiraMetrics ends for every
\* sequence of answers of the host: a call that stands in the loop leaves it.
C25_LoopTerminates == JiraInLoop ~> ~JiraInLoop

\* ------------------------------------------------------------ no rollback
\* The running call wrote its overall_snapshot (line 990), then an exception
\* reached the catch block, and the call has returned.
FailedAfterSnapshot ==
  /\ Returned /\ obs.path = "exception"
  /\ Len(obs.written) > 0 /\ obs.written[1] = OVERALL
  /\ Len(obs.written) > 1 \/ ~obs.handlerSaved
\* The record of key k is what it was when the call began, or is still absent.
KeepsPreCall(k) ==
  IF k \in DOMAIN PreRows THEN k \in DOMAIN Rows /\ Rows[k] = PreRows[k]
  ELSE k \notin DOMAIN Rows
\* The windows written stay as written and the windows not reached are as
\* they were.
WindowsNotRolledBack ==
  /\ \A k \in WindowsWritten : k \in DOMAIN Rows /\ OwnWindow(Rows[k])
  /\ \A k \in WindowKeys \ WindowsWritten : KeepsPreCall(k)
WithoutInfo(record) == [f \in (DOMAIN record) \ {"info"} |-> record[f]]

\* C26 (as claimed): when an exception escapes after the overall_snapshot and
\* k < 6 window records of the call were written, the k records stay with
\* their new content, the other windows are as before the call, and
\* overall_snapshot holds the failure message with the snapshot fields it had
\* before the call.
C26_NoRollback ==
  (FailedAfterSnapshot /\ Cardinality(WindowsWritten) < Len(periods)) =>
    /\ WindowsNotRolledBack
    /\ HasInfo(Rows[OVERALL])
    /\ Rows[OVERALL].info = [message |-> MsgRefreshFailed(err)]
    /\ DataOf(Rows[OVERALL]) = DataOf(GetOrEmpty(PreRows, OVERALL))

\* C26 (amended): when an exception escapes after the overall_snapshot and k
\* window records of the call were written (k = 6 when the last read threw),
\* the k records stay with their new content and the other windows are as
\* before the call. When the write of the catch block failed, overall_snapshot
\* is the snapshot this call computed, without a failure message. When it
\* succeeded, overall_snapshot holds the failure message with the snapshot
\* fields it had before the call if the team had any record then; if the team
\* had none, with the snapshot this call computed (or with nothing when the
\* read of the catch block threw).
C26_NoRollbackPerCase ==
  FailedAfterSnapshot =>
    /\ WindowsNotRolledBack
    /\ IF ~obs.handlerSaved
       THEN OwnSnapshot(Rows[OVERALL]) /\ ~HasInfo(Rows[OVERALL])
       ELSE /\ HasInfo(Rows[OVERALL])
            /\ Rows[OVERALL].info = [message |-> MsgRefreshFailed(err)]
            /\ Rows[OVERALL].apiLastRefreshed = Timestamp(calls)
            /\ IF PreRows # EmptyObj
               THEN DataOf(Rows[OVERALL]) = DataOf(GetOrEmpty(PreRows, OVERALL))
               ELSE \/ OwnSnapshot(WithoutInfo(Rows[OVERALL]))
                    \/ obs.dbFaults >= 2 /\ DataFields(Rows[OVERALL]) = {}

\* Witness of C26: a team with the records of an earlier call; the running
\* call wrote its snapshot and some but not all windows, failed, and recorded
\* the failure. The store holds the earlier snapshot's fields with the failure
\* message, new records for the windows written and the earlier records for
\* the rest.
C26_Witness ==
  /\ FailedAfterSnapshot /\ obs.handlerSaved
  /\ PeriodKeys \subseteq DOMAIN PreRows
  /\ WindowsWritten # {} /\ WindowKeys \ WindowsWritten # {}
  /\ WindowsNotRolledBack
  /\ \E k \in WindowsWritten : Rows[k] # PreRows[k]
  /\ DataOf(Rows[OVERALL]) = DataOf(PreRows[OVERALL])
  /\ DataFields(Rows[OVERALL]) # {}

\* ------------------------------------------------------- commit paging
\* A step that issues one request of a commit listing.
PagingStep == pc = "windowPage" /\ Len(obs'.requests) > Len(obs.requests)
\* The pages of window p answered by a 2xx array, each with the page before
\* it (when it has one) answered so too.
FailedLaterPages(p) ==
  { r \in SeqToSet(RequestsOf(p)) : r[1] = "commits" /\ r[4] > 1 /\ r[5] # "ok" }

\* C27: the commit-listing loop asks for a further page exactly when the page
\* just received was a 2xx array with at least one commit and a rel="next"
\* link (so an empty page ends the paging even with a next link); a later
\* page that is answered by another status, by a body that is no array or by
\* a failure of the request ends the paging and takes nothing from the lines
\* and committers accumulated, which are in the window's record when it is
\* written.
C27_CommitPaging ==
  /\ [][ PagingStep =>
           LET r == obs'.requests[Len(obs.requests) + 1]
               served == CommitsPage(CommitsInWindow(r[3], periods[r[2]].days), r[4])
               nextLink == << r[2], r[3], r[4] >> \in obs'.linked
               further == /\ pc' = "windowPage" /\ idx' = idx /\ period' = period
                          /\ acc'.page = r[4] + 1
           IN /\ r[1] = "commits" /\ r[2] = period /\ r[3] = repos[idx].fullName
              /\ r[4] = acc.page
              /\ further <=> (r[5] = "ok" /\ Len(served) > 0 /\ nextLink)
              /\ ~further => acc'.page = 1 /\ (idx' # idx \/ pc' # "windowPage")
              /\ (r[4] > 1 /\ r[5] # "ok") =>
                   /\ acc'.linesAddedInPeriod = acc.linesAddedInPeriod
                   /\ acc'.uniqueCommittersInPeriod = acc.uniqueCommittersInPeriod ]_vars
  /\ [](\A k \in WindowsWritten :
          \A r \in FailedLaterPages(PeriodOf(k)) :
            LET first == Request("commits", r[2], r[3], 1, "ok")
                cs == CommitsReturned(first)
            IN /\ first \in SeqToSet(obs.requests)
               /\ Rows[k].linesAdded_period >= PageContribution(first)
               /\ \A i \in 1..Len(cs) :
                    CommitterLogin(cs[i]) # "unknown_committer" =>
                      CommitterLogin(cs[i]) \in SeqToSet(Rows[k].uniqueCommitterNames_period))

\* Witness of C27: in the 180-day window the first page of o/r1 brought two
\* commits and a next link, and the second page was answered by a body that
\* is no array: the paging is over and the 15 lines and two committers of the
\* first page are still counted.
C27_Witness ==
  /\ pc \in {"windowPage", "saveWindow"} /\ period = 5
  /\ obs.requests[Len(obs.requests)] = Request("commits", 5, "o/r1", 2, "nonarray")
  /\ << 5, "o/r1", 1 >> \in obs.linked
  /\ acc.page = 1
  /\ acc.linesAddedInPeriod = 15
  /\ acc.uniqueCommittersInPeriod = << "alice", "bob" >>

\* ------------------------------------------- the processed-repository lists
\* a is b with some elements left out.
RECURSIVE IsSubList(_, _)
IsSubList(a, b) ==
  IF a = << >> THEN TRUE
  ELSE IF b = << >> THEN FALSE
  ELSE IF Head(a) = Head(b) THEN IsSubList(Tail(a), Tail(b))
  ELSE IsSubList(a, Tail(b))
\* The window records of the running call list every repository that has a
\* fullName, and so does its snapshot, followed by the given cloned list.
ProcessedLists(cloned) ==
  /\ \A k \in WindowsWritten :
       Rows[k].apiProcessedRepoFullNames = FullNames(repos)
  /\ SnapshotStands =>
       /\ Rows[OVERALL].apiProcessedRepoFullNames = FullNames(repos)
       /\ Rows[OVERALL].clonedProcessedRepoFullNames = cloned
       /\ IsSubList(Rows[OVERALL].clonedProcessedRepoFullNames,
                    Rows[OVERALL].apiProcessedRepoFullNames)

\* C28: apiProcessedRepoFullNames, in the snapshot and in every window record,
\* lists every repository of the set that has a fullName, in input order,
\* whatever became of its requests; clonedProcessedRepoFullNames lists exactly
\* the repositories whose clone succeeded and whose line count met no error,
\* and is a sub-list of apiProcessedRepoFullNames.
C28_ProcessedLists == ProcessedLists(NamesOf(CleanClones))

\* ========================================================= getGithubMetrics
\* The fields of GithubMetricsPeriodData that lines 1163-1183 fill in.
NumericFields ==
  { "apiTotalBytes_current", "apiEstimatedTotalLines_current", "clonedActualTotalLines",
    "linesAdded_period", "uniqueCommitters_period" }
ListMapFields ==
  { "apiBytesByLanguage_current", "apiEstimatedLinesByLanguage_current",
    "apiProcessedRepoFullNames", "clonedActualLinesByLanguage",
    "clonedProcessedRepoFullNames", "latestTags", "uniqueCommitterNames_period" }
DateFields ==
  { "apiLastRefreshed", "clonedLoCLastRefreshed", "periodStartDate", "periodEndDate",
    "periodLastRefreshed" }
NA == << "N/A" >>

MsgNoMetrics ==
  << "No GitHub metrics data available. Configure GitHub settings and refresh." >>
MsgNoPeriodData(p) == << "No data for ", p, ". Refresh metrics." >>

\* lines 1120-1139
defaultOverall ==
  [f \in {"info"} \cup NumericFields \cup ListMapFields \cup DateFields |->
     IF f = "info" THEN [message |-> MsgNoMetrics]
     ELSE IF f \in NumericFields THEN 0
     ELSE IF f \in ListMapFields THEN << >>
     ELSE NA]
\* lines 1148-1157
defaultPeriod(p) ==
  [ info |-> [message |-> MsgNoPeriodData(p)],
    linesAdded_period |-> 0, uniqueCommitters_period |-> 0,
    uniqueCommitterNames_period |-> << >>,
    periodStartDate |-> NA, periodEndDate |-> NA, periodLastRefreshed |-> NA,
    apiProcessedRepoFullNames |-> << >> ]

\* A loop that hands the record on as it is stored.
NormalizeRecord_Keep(data) == data

\* lines 1161-1184: the record rebuilt field by field, data.f || default. The
\* stored values are numbers, arrays, objects and date strings: 0 || 0 is 0,
\* and an array, an object or a date string is kept; a field that is absent
\* (or was undefined when written) takes its default. info is copied, absent
\* or not.
NormalizeRecord(data) ==
  [f \in {"info"} \cup NumericFields \cup ListMapFields \cup DateFields |->
     IF f \in DOMAIN data THEN data[f]
     ELSE IF f = "info" THEN Undefined
     ELSE IF f \in NumericFields THEN 0
     ELSE IF f \in ListMapFields THEN << >>
     ELSE NA]

\* lines 1118-1187, on the rows getGithubTeamMetricsFromDb returned.
getGithubMetrics(metrics) ==
  LET resultMetrics ==
        [k \in PeriodKeys |->
           IF k \in DOMAIN metrics THEN metrics[k]
           ELSE IF k = OVERALL THEN defaultOverall
           ELSE defaultPeriod(k)]
  IN [k \in PeriodKeys |-> NormalizeRecord(resultMetrics[k])]

\* Records a row of github_team_metrics can hold: a snapshot as the success
\* path writes it, with and without a clone timestamp; a snapshot annotated by
\* a failed call; a record with nothing but a message (the no-repositories
\* path, or a row whose data could not be parsed, lines 403-410); a window
\* record.
StoredSnapshots ==
  LET full == [ apiTotalBytes_current |-> 1500,
                apiBytesByLanguage_current |-> [Go |-> 1000, TS |-> 500],
                apiEstimatedTotalLines_current |-> 30,
                apiEstimatedLinesByLanguage_current |-> [Go |-> 20, TS |-> 10],
                apiProcessedRepoFullNames |-> << "o/r1" >>,
                apiLastRefreshed |-> Timestamp(1),
                clonedActualTotalLines |-> 0,
                clonedActualLinesByLanguage |-> << >>,
                clonedProcessedRepoFullNames |-> << >>,
                latestTags |-> << >> ]
  IN { full,
       Spread(full, [clonedLoCLastRefreshed |-> Timestamp(1)]),
       Spread(full, [info |-> [message |-> MsgRefreshFailed("metrics write failed")]]),
       [info |-> [message |-> MsgNoRepos], apiLastRefreshed |-> Timestamp(1)],
       [info |-> [message |-> << "Error loading data for period " >>]] }
StoredWindows ==
  { [ linesAdded_period |-> 15, uniqueCommitters_period |-> 2,
      uniqueCommitterNames_period |-> << "alice", "bob" >>,
      periodStartDate |-> 100, periodEndDate |-> 107,
      periodLastRefreshed |-> Timestamp(1),
      apiProcessedRepoFullNames |-> << "o/r1" >> ],
    [info |-> [message |-> << "Error loading data for period " >>]] }
\* The rows a team can hold: any of the seven keys present or not.
StoredRows ==
  UNION { { m \in [K -> StoredSnapshots \cup StoredWindows] :
              \A k \in K : IF k = OVERALL THEN m[k] \in StoredSnapshots
                           ELSE m[k] \in StoredWindows } : K \in SUBSET PeriodKeys }

\* Team A holds any of these rows; getGithubMetrics has not been called.
MetricsInit ==
  /\ teams = {"A"}
  /\ store \in { [t \in Teams |-> IF t = "A" THEN m ELSE EmptyObj] : m \in StoredRows }
  /\ config = [t \in Teams |-> NoConfig]
  /\ dbUp = TRUE
  /\ tmpDirs = {}
  /\ faults = 0
  /\ calls = 0
  /\ pc = "idle"
  /\ teamId = "A"
  /\ repoArg = << >>
  /\ existingMetrics = EmptyObj
  /\ repos = << >>
  /\ idx = 0
  /\ acc = EmptyObj
  /\ period = 0
  /\ err = ""
  /\ currentMetricsReturn = EmptyObj
  /\ result = NoResult
  /\ obs = NoObs
  /\ scan = NoScan
  /\ jira = NoJira
  /\ peer = NoPeer

\* getGithubMetrics(teamId): one read of the store (line 1119, which may
\* throw: the function has no try/catch) and the map built from it.
GetGithubMetrics ==
  /\ result = NoResult
  /\ \/ /\ DbSuccess
        /\ result' = [returned |-> TRUE, threw |-> FALSE,
                      data |-> getGithubMetrics(getGithubTeamMetricsFromDb(store, teamId))]
     \/ /\ DbFailure
        /\ result' = [returned |-> FALSE, threw |-> TRUE]
  /\ UNCHANGED << teams, store, config, tmpDirs, calls, pc, teamId, repoArg, existingMetrics, repos, idx, acc,
                  period, err, currentMetricsReturn, obs, scan, jira, peer >>

MetricsNext == GetGithubMetrics
MetricsSpec == MetricsInit /\ [][MetricsNext]_vars

\* C29: whatever rows the team holds, the map getGithubMetrics returns has
\* exactly the seven period keys; a key without a row carries the default
\* message; and every record has every numeric field (0 when absent), every
\* list and map field (empty when absent) and every date field ("N/A" when
\* absent), a field that is stored being handed on as stored.
C29_GetMetricsTotal ==
  result.returned =>
    LET metrics == store[teamId]
        data == result.data
    IN /\ DOMAIN data = PeriodKeys
       /\ \A k \in PeriodKeys :
            /\ NumericFields \cup ListMapFields \cup DateFields \subseteq DOMAIN data[k]
            /\ k \notin DOMAIN metrics =>
                 /\ "message" \in DOMAIN data[k].info
                 /\ data[k].info.message =
                      IF k = OVERALL THEN MsgNoMetrics ELSE MsgNoPeriodData(k)
            /\ \A f \in NumericFields \cup ListMapFields \cup DateFields :
                 data[k][f] =
                   IF k \in DOMAIN metrics /\ f \in DOMAIN metrics[k] THEN metrics[k][f]
                   ELSE IF f \in NumericFields THEN 0
                   ELSE IF f \in ListMapFields THEN << >>
                   ELSE NA

\* Witness of C29: the team holds a snapshot with nothing but a message, a
\* full record for 7days, a message for 30days and no row for the other
\* windows; the map returned has all seven keys, zeros and "N/A" in the
\* snapshot and the default message in 365days.
C29_Witness ==
  /\ result.returned
  /\ DOMAIN store[teamId] = {OVERALL, "7days", "30days"}
  /\ DOMAIN store[teamId][OVERALL] = {"info"}
  /\ "info" \notin DOMAIN store[teamId]["7days"]
  /\ DOMAIN store[teamId]["30days"] = {"info"}
  /\ result.data[OVERALL].apiTotalBytes_current = 0
  /\ result.data[OVERALL].apiLastRefreshed = NA
  /\ result.data["7days"].linesAdded_period = 15
  /\ result.data["365days"].info = [message |-> MsgNoPeriodData("365days")]

\* ================================== two calls for the same team, overlapping
\* A second refreshGithubMetrics call for teamId runs while the first does.
\* It is followed by its store steps alone; what it computes is what a call
\* for the repository o/r2 computes when the host answers none of its
\* requests and the clone fails. Its timestamps are those of call 0.
PeerArgs == { << >>, << R2 >> }
PeerStamp == Timestamp(0)
PeerSnapshot ==
  OverallSnapshotData(
    [SnapshotAcc EXCEPT !.overallApiProcessedRepoFullNames = << R2.fullName >>],
    PeerStamp)
PeerWindow(p) ==
  PeriodData([WindowAcc EXCEPT !.periodApiProcessedRepoFullNames = << R2.fullName >>],
             p, NowHour(0), PeerStamp)
PeerRunning == peer.pc \notin {"idle", "done"}

\* lines 827-868 of the second call: it reads the team's rows and its
\* configuration and takes its path.
PeerStart ==
  /\ peer.pc = "idle" /\ dbUp
  /\ \E arg \in PeerArgs :
       LET githubConfig == getGithubConfigFromDb(config, teamId)
           path == IF ConfigMissing(githubConfig) THEN "config_missing"
                   ELSE IF Len(ResolveRepos(arg, githubConfig.selectedRepos)) = 0
                   THEN "no_repos"
                   ELSE "success"
       IN peer' = [ pc |-> CASE path = "config_missing" -> "saveConfigMissing"
                            [] path = "no_repos" -> "clear"
                            [] OTHER -> "save",
                    path |-> path,
                    existingMetrics |-> getGithubTeamMetricsFromDb(store, teamId),
                    next |-> 0, written |-> << >>, last |-> EmptyObj,
                    cleared |-> FALSE ]
  /\ UNCHANGED << teams, store, config, dbUp, tmpDirs, faults, calls, pc, callVars,
                  obs, scan, jira >>

\* line 855 of the second call.
PeerClear ==
  /\ peer.pc = "clear" /\ dbUp
  /\ store' = clearGithubTeamMetrics(store, teamId)
  /\ peer' = [peer EXCEPT !.pc = "saveInfo", !.cleared = TRUE]
  /\ UNCHANGED << teams, config, dbUp, tmpDirs, faults, calls, pc, callVars,
                  obs, scan, jira >>

\* lines 837, 858, 990 and 1084 of the second call: one write.
PeerSave ==
  /\ peer.pc \in {"saveConfigMissing", "saveInfo", "save"} /\ dbUp
  /\ LET periodKey == IF peer.pc = "save" /\ peer.next > 0
                      THEN periods[peer.next].key ELSE OVERALL
         data ==
           CASE peer.pc = "saveConfigMissing" ->
                  Spread(GetOrEmpty(peer.existingMetrics, OVERALL),
                         [info |-> [message |-> MsgConfigMissing],
                          apiLastRefreshed |-> PeerStamp])
             [] peer.pc = "saveInfo" ->
                  [info |-> [message |-> MsgNoRepos], apiLastRefreshed |-> PeerStamp]
             [] peer.next = 0 -> PeerSnapshot
             [] OTHER -> PeerWindow(peer.next)
     IN /\ store' = saveGithubTeamMetric(store, teamId, periodKey, data)
        /\ peer' = [peer EXCEPT
                      !.pc = IF peer.pc = "save" /\ peer.next < Len(periods)
                             THEN "save" ELSE "done",
                      !.next = @ + 1,
                      !.written = Append(@, periodKey),
                      !.last = data]
  /\ UNCHANGED << teams, config, dbUp, tmpDirs, faults, calls, pc, callVars,
                  obs, scan, jira >>

\* The store call of the second call throws, and so does the write of its
\* catch block (lines 1091-1109): the database is down.
PeerFails ==
  /\ PeerRunning /\ ~dbUp
  /\ peer' = [peer EXCEPT !.pc = "done", !.path = "exception"]
  /\ UNCHANGED << teams, store, config, dbUp, tmpDirs, faults, calls, pc, callVars,
                  obs, scan, jira >>

PeerStep == PeerClear \/ PeerSave \/ PeerFails

\* Team A with a complete configuration and no saved selection, or with a
\* configuration that lacks the token; it holds no record, and one call is
\* still to be made.
OverlapInit ==
  /\ teams = {"A"}
  /\ store = [t \in Teams |-> EmptyObj]
  /\ config \in { [t \in Teams |-> IF t = "A" THEN c ELSE NoConfig] :
                    c \in { GithubConfig("https://github.com/acme", "tok", << >>),
                            GithubConfig("https://github.com/acme", "", << >>) } }
  /\ dbUp = TRUE
  /\ tmpDirs = {}
  /\ faults = 0
  /\ calls = MaxCalls - 1
  /\ pc = "idle"
  /\ teamId = "A"
  /\ repoArg = << >>
  /\ existingMetrics = EmptyObj
  /\ repos = << >>
  /\ idx = 0
  /\ acc = EmptyObj
  /\ period = 0
  /\ err = ""
  /\ currentMetricsReturn = EmptyObj
  /\ result = NoResult
  /\ obs = NoObs
  /\ scan = NoScan
  /\ jira = NoJira
  /\ peer = NoPeer

\* The first call is made with no list or with the list of o/r2.
OverlapStart == StartWith(PeerArgs)

OverlapNext ==
  \/ OverlapStart
  \/ CallStep
  \/ PeerStart
  \/ PeerClear
  \/ PeerSave
  \/ PeerFails
OverlapSpec == OverlapInit /\ [][OverlapNext]_vars

\* What the running call hands to saveGithubTeamMetric where it stands.
OwnPayload(record) ==
  CASE pc = "saveSnapshot" -> OwnSnapshot(record)
    [] pc = "saveWindow" -> OwnWindow(record)
    [] pc = "saveNoRepos" ->
         record = [info |-> [message |-> MsgNoRepos],
                   apiLastRefreshed |-> Timestamp(calls)]
    [] pc = "saveConfigMissing" ->
         record = Spread(GetOrEmpty(existingMetrics, OVERALL),
                         [info |-> [message |-> MsgConfigMissing],
                          apiLastRefreshed |-> Timestamp(calls)])
    [] pc = "catchSave" ->
         record = Spread(GetOrEmpty(currentMetricsReturn, OVERALL),
                         [info |-> [message |-> MsgRefreshFailed(err)],
                          apiLastRefreshed |-> Timestamp(calls)])
    [] OTHER -> FALSE
\* The rows of the team but that of key k are left as they are.
OthersKept(k) ==
  /\ (DOMAIN store'[teamId]) \ {k} = (DOMAIN Rows) \ {k}
  /\ \A j \in (DOMAIN Rows) \ {k} : store'[teamId][j] = Rows[j]
PeerWrote == peer.pc # "idle" /\ Len(peer'.written) > Len(peer.written)
OwnWrote == Len(obs'.written) > Len(obs.written)
PeerCleared == peer.pc = "clear" /\ peer'.cleared
OwnCleared == ~obs.cleared /\ obs'.cleared

\* C30: with two calls for one team overlapping, nothing makes a store step of
\* one call wait for the other; every write leaves in its row exactly the
\* payload of that write, whatever the row held, and leaves the other rows as
\* they are; a delete empties the team's rows, those the other call wrote
\* included; no other step changes a row.
C30_OverlappingCalls ==
  /\ [][ /\ PeerWrote =>
              LET k == peer'.written[Len(peer'.written)] IN
              /\ k \in DOMAIN store'[teamId]
              /\ store'[teamId][k] = JsonRoundTrip(peer'.last)
              /\ OthersKept(k)
         /\ OwnWrote =>
              LET k == obs'.written[Len(obs'.written)] IN
              /\ k \in DOMAIN store'[teamId]
              /\ OwnPayload(store'[teamId][k])
              /\ OthersKept(k)
         /\ (PeerCleared \/ OwnCleared) => store'[teamId] = EmptyObj
         /\ ~(PeerWrote \/ OwnWrote \/ PeerCleared \/ OwnCleared) => store' = store ]_vars
  /\ []( /\ ~Idle => ENABLED CallStep
         /\ PeerRunning => ENABLED PeerStep )

\* Witness of C30: both calls have returned, the first on the success path
\* with its seven writes done, the second on the no-repositories path. The
\* delete of the second fell between the window writes of the first: the
\* store holds the informational snapshot of the second call beside window
\* records of the first, and a window the first call wrote is gone.
C30_Witness ==
  /\ Returned /\ obs.path = "success" /\ obs.written = AllKeysInOrder
  /\ peer.pc = "done" /\ peer.path = "no_repos" /\ peer.cleared
  /\ Rows[OVERALL] = [info |-> [message |-> MsgNoRepos], apiLastRefreshed |-> PeerStamp]
  /\ "7days" \notin DOMAIN Rows
  /\ "365days" \in DOMAIN Rows /\ OwnWindow(Rows["365days"])

====
